---- MODULE Spec2Model ----
(***************************************************************************)
(* Model of the rules engine of the "All-in" poker table helper            *)
(* (src/src/poker/engine.ts): the reducer, the side-pot engine and the     *)
(* rollback stack.  Arrays of players are functions over 0..n-1 (the seat  *)
(* index is the array position); every other array is a sequence, so the  *)
(* code's index idx is the sequence position idx + 1.                      *)
(***************************************************************************)
EXTENDS Integers, Sequences, FiniteSets, TLC

(***************************************************************************)
(* Generic helpers for the array idioms of the source.                     *)
(***************************************************************************)
Max2(a, b) == IF a >= b THEN a ELSE b

Min2(a, b) == IF a <= b THEN a ELSE b

Range(q) == {q[i] : i \in DOMAIN q}

SetMin(S) == CHOOSE x \in S : \A y \in S : x <= y

RECURSIVE SortedSeq(_)
SortedSeq(S) ==
  IF S = {} THEN <<>>
  ELSE LET m == SetMin(S) IN <<m>> \o SortedSeq(S \ {m})

RECURSIVE SumSeq(_)
SumSeq(q) == IF q = <<>> THEN 0 ELSE Head(q) + SumSeq(Tail(q))

\* Array.from(new Set(raw)): first occurrences, in order
RECURSIVE Uniq(_)
Uniq(q) ==
  IF q = <<>> THEN <<>>
  ELSE LET r == Uniq(SubSeq(q, 1, Len(q) - 1))
           x == q[Len(q)]
       IN IF x \in Range(r) THEN r ELSE Append(r, x)

\* number of positions of q holding x
CountIn(q, x) == Cardinality({i \in DOMAIN q : q[i] = x})

\* players.length
NumPlayers(ps) == Cardinality(DOMAIN ps)

\* players.filter(pred).map(p => p.seat) for the array positions `which`
\* that pass the filter: their seats, in array order
SeatsOf(ps, which) ==
  LET idxs == SortedSeq(which)
  IN [k \in DOMAIN idxs |-> ps[idxs[k]].seat]

\* the sum of the stacks of the first n players
RECURSIVE sumStacksUpTo(_, _)
sumStacksUpTo(ps, n) == IF n = 0 THEN 0 ELSE ps[n - 1].stack + sumStacksUpTo(ps, n - 1)

SumStacks(ps) == sumStacksUpTo(ps, NumPlayers(ps))

clampInt(n, min, max) == Max2(min, Min2(max, n))

(***************************************************************************)
(* Values of the source's types.                                           *)
(***************************************************************************)
Null == "null"

NoSession == <<>>

defaultConfig == [smallBlind |-> 1, bigBlind |-> 2, ante |-> 0]

maxRollback == 50

MaxPlayers == 10

defaultName(idx) == <<"P1", "P2", "P3", "P4", "P5", "P6", "P7", "P8", "P9", "P10">>[idx + 1]

newPlayer(idx, name, stack, status) ==
  [seat |-> idx, name |-> name, stack |-> stack, streetBet |-> 0, totalCommitted |-> 0,
   status |-> status, acted |-> FALSE, holeCardsText |-> ""]

createInitialState ==
  [phase |-> "setup",
   config |-> defaultConfig,
   players |-> [i \in 0..1 |-> newPlayer(i, defaultName(i), 200, "active")],
   dealerSeat |-> 0,
   street |-> "preflop",
   currentBet |-> 0,
   actionSeat |-> 0,
   boardCardsText |-> "",
   potWinners |-> <<>>,
   session |-> NoSession,
   rollbackStack |-> <<>>,
   lastError |-> Null]

(***************************************************************************)
(* Pot engine.                                                             *)
(***************************************************************************)
\* variant: a folded player stays eligible
isEligibleForShowdown_notOut(p) == p.status # "out"

isEligibleForShowdown(p) == p.status # "folded" /\ p.status # "out"

RECURSIVE committedUpTo(_, _)
committedUpTo(ps, n) == IF n = 0 THEN 0 ELSE ps[n - 1].totalCommitted + committedUpTo(ps, n - 1)

computePotSize(ps) == committedUpTo(ps, NumPlayers(ps))

RECURSIVE potsFromLevels(_, _, _)
potsFromLevels(ps, levels, prev) ==
  IF levels = <<>> THEN <<>>
  ELSE LET level == Head(levels)
           contributors == {i \in DOMAIN ps : ps[i].totalCommitted > 0 /\ ps[i].totalCommitted >= level}
           amount == (level - prev) * Cardinality(contributors)
           eligibleSeats == SeatsOf(ps, {i \in contributors : isEligibleForShowdown(ps[i])})
           rest == potsFromLevels(ps, Tail(levels), level)
       IN IF amount > 0 THEN <<[amount |-> amount, eligibleSeats |-> eligibleSeats]>> \o rest
          ELSE rest

\* variant: the levels are taken from the players still in the showdown only
computeSidePots_showdownLevels(ps) ==
  LET levels == SortedSeq({ps[i].totalCommitted :
                             i \in {j \in DOMAIN ps : ps[j].totalCommitted > 0 /\ isEligibleForShowdown(ps[j])}})
  IN potsFromLevels(ps, levels, 0)

computeSidePots(ps) ==
  LET levels == SortedSeq({ps[i].totalCommitted : i \in {j \in DOMAIN ps : ps[j].totalCommitted > 0}})
  IN potsFromLevels(ps, levels, 0)

\* variant: no pot is assigned on its own
initialPotWinners_unassigned(ps) ==
  LET pots == computeSidePots(ps)
  IN [idx \in DOMAIN pots |-> <<>>]

initialPotWinners(ps) ==
  LET pots == computeSidePots(ps)
  IN [idx \in DOMAIN pots |->
        IF Len(pots[idx].eligibleSeats) = 1 THEN <<pots[idx].eligibleSeats[1]>> ELSE <<>>]

\* potWinners[idx] ?? []
winnersAt(potWinners, idx) == IF idx \in DOMAIN potWinners THEN potWinners[idx] ELSE <<>>

normalizeWinnerSeats(ps, pot, raw) ==
  LET maxSeat == Max2(0, NumPlayers(ps) - 1)
      uniq == SelectSeq(Uniq(raw), LAMBDA s : s >= 0 /\ s <= maxSeat)
  IN SelectSeq(uniq, LAMBDA s : s \in Range(pot.eligibleSeats))

normalizePotWinnersForPots(ps, pots, potWinners) ==
  [idx \in DOMAIN pots |->
     IF Len(pots[idx].eligibleSeats) = 1 THEN <<pots[idx].eligibleSeats[1]>>
     ELSE normalizeWinnerSeats(ps, pots[idx], winnersAt(potWinners, idx))]

\* variant: the walk starts at the dealer's own seat
seatOrder_fromDealer(seats, dealerSeat, totalSeats) ==
  LET hit == {i \in 0..(totalSeats - 1) : ((dealerSeat + i) % totalSeats) \in Range(seats)}
      idxs == SortedSeq(hit)
  IN [k \in DOMAIN idxs |-> (dealerSeat + idxs[k]) % totalSeats]

\* the seats of `seats` met when walking clockwise from dealerSeat + 1
seatOrder(seats, dealerSeat, totalSeats) ==
  LET hit == {i \in 1..totalSeats : ((dealerSeat + i) % totalSeats) \in Range(seats)}
      idxs == SortedSeq(hit)
  IN [k \in DOMAIN idxs |-> (dealerSeat + idxs[k]) % totalSeats]

eligibleWinnersOf(pot, winnerSeats) ==
  IF Len(pot.eligibleSeats) = 1 THEN <<pot.eligibleSeats[1]>>
  ELSE SelectSeq(winnerSeats, LAMBDA s : s \in Range(pot.eligibleSeats))

\* the seat that receives the i-th leftover chip (i counted from 0)
remainderSeat(order, eligibleWinners, i) ==
  IF Len(order) > 0 THEN order[(i % Len(order)) + 1]
  ELSE eligibleWinners[(i % Len(eligibleWinners)) + 1]

\* what one pot pays to seat s
potPayout(pot, winnerSeats, dealerSeat, totalSeats, s) ==
  LET eligibleWinners == eligibleWinnersOf(pot, winnerSeats)
      k == Len(eligibleWinners)
  IN IF k = 0 THEN 0
     ELSE LET share == pot.amount \div k
              remainder == pot.amount - share * k
              order == seatOrder(eligibleWinners, dealerSeat, totalSeats)
          IN share * CountIn(eligibleWinners, s)
             + Cardinality({i \in 0..(remainder - 1) : remainderSeat(order, eligibleWinners, i) = s})

RECURSIVE payoutUpTo(_, _, _, _, _, _)
payoutUpTo(pots, potWinners, dealerSeat, totalSeats, s, n) ==
  IF n = 0 THEN 0
  ELSE potPayout(pots[n], winnersAt(potWinners, n), dealerSeat, totalSeats, s)
       + payoutUpTo(pots, potWinners, dealerSeat, totalSeats, s, n - 1)

\* the seats a payout map can hold a key for
payoutSeats(pots, potWinners) ==
  UNION {Range(eligibleWinnersOf(pots[idx], winnersAt(potWinners, idx))) : idx \in DOMAIN pots}

\* the Map<seat, chips>; a seat without an entry is absent from the domain
distributePots(pots, potWinners, dealerSeat, totalSeats) ==
  [s \in payoutSeats(pots, potWinners) |->
     payoutUpTo(pots, potWinners, dealerSeat, totalSeats, s, Len(pots))]

\* payoutMap.get(seat) ?? 0
payoutGet(payoutMap, seat) == IF seat \in DOMAIN payoutMap THEN payoutMap[seat] ELSE 0

(***************************************************************************)
(* Seats and betting-round helpers.                                        *)
(***************************************************************************)
\* variant: the next seat is the neighbour, whatever its player
nextSeatFrom_neighbour(ps, fromSeat, ok) ==
  LET n == NumPlayers(ps)
      hits == {1}
  IN IF n = 0 THEN 0
     ELSE IF hits = {} THEN fromSeat
     ELSE (fromSeat + SetMin(hits)) % n

\* `ok` is the set of array positions whose player passes the predicate
nextSeatFrom(ps, fromSeat, ok) ==
  LET n == NumPlayers(ps)
      hits == {i \in 1..n : ((fromSeat + i) % n) \in ok}
  IN IF n = 0 THEN 0
     ELSE IF hits = {} THEN fromSeat
     ELSE (fromSeat + SetMin(hits)) % n

countRemaining(ps) ==
  Cardinality({i \in DOMAIN ps : ps[i].status = "active" \/ ps[i].status = "allin"})

normalizeAfterError(state) == [state EXCEPT !.lastError = Null]

postForcedBet(player, amount) ==
  IF player.status = "out" THEN player
  ELSE LET pay == Max2(0, Min2(amount, player.stack))
           nextStack == player.stack - pay
       IN [player EXCEPT !.stack = nextStack,
                         !.streetBet = player.streetBet + pay,
                         !.totalCommitted = player.totalCommitted + pay,
                         !.status = IF nextStack = 0 THEN "allin" ELSE player.status]

\* truthiness of session?.endedAt: null, undefined and 0 are falsy
sessionEnded(session) ==
  /\ session # NoSession
  /\ session[1].endedAt # <<>>
  /\ session[1].endedAt[1] # 0

\* cleared.session && !cleared.session.endedAt
hasActiveSession(session) == session # NoSession /\ ~sessionEnded(session)

beginHand(state) ==
  IF sessionEnded(state.session) THEN [state EXCEPT !.lastError = "session already ended"]
  ELSE
    LET players == [i \in DOMAIN state.players |->
                      [state.players[i] EXCEPT !.streetBet = 0, !.totalCommitted = 0, !.acted = FALSE,
                                               !.status = IF state.players[i].stack <= 0 THEN "out" ELSE "active"]]
        active == {i \in DOMAIN players : players[i].status = "active"}
        activeSeats == SeatsOf(players, active)
    IN IF Len(activeSeats) < 2 THEN [state EXCEPT !.lastError = "need two funded players"]
       ELSE
         LET dealerSeat == IF state.dealerSeat \in Range(activeSeats) THEN state.dealerSeat ELSE activeSeats[1]
             sbSeat == nextSeatFrom(players, dealerSeat, active)
             bbSeat == nextSeatFrom(players, sbSeat, active)
             withAntes == IF state.config.ante > 0
                          THEN [i \in DOMAIN players |->
                                  IF players[i].status = "active" THEN postForcedBet(players[i], state.config.ante)
                                  ELSE players[i]]
                          ELSE players
             withSB == [i \in DOMAIN players |->
                          IF withAntes[i].seat = sbSeat THEN postForcedBet(withAntes[i], state.config.smallBlind)
                          ELSE withAntes[i]]
             withBB == [i \in DOMAIN players |->
                          IF withSB[i].seat = bbSeat THEN postForcedBet(withSB[i], state.config.bigBlind)
                          ELSE withSB[i]]
             currentBet == state.config.bigBlind
             actionSeat == nextSeatFrom(withBB, bbSeat,
                                        {i \in DOMAIN withBB : withBB[i].status = "active" /\ withBB[i].stack > 0})
         IN [state EXCEPT !.phase = "hand",
                          !.players = [i \in DOMAIN withBB |-> [withBB[i] EXCEPT !.acted = FALSE]],
                          !.dealerSeat = dealerSeat,
                          !.street = "preflop",
                          !.currentBet = currentBet,
                          !.actionSeat = actionSeat,
                          !.potWinners = <<>>,
                          !.boardCardsText = "",
                          !.rollbackStack = <<>>,
                          !.lastError = Null]

toCallFor(player, state) == Max2(0, state.currentBet - player.streetBet)

needsAction(player, state) ==
  IF player.status # "active" THEN FALSE
  ELSE IF player.stack <= 0 THEN FALSE
  ELSE IF ~player.acted THEN TRUE
  ELSE player.streetBet # state.currentBet

findNextActionSeat(state, fromSeat) ==
  nextSeatFrom(state.players, fromSeat, {i \in DOMAIN state.players : needsAction(state.players[i], state)})

isBettingRoundComplete(state) ==
  {i \in DOMAIN state.players : needsAction(state.players[i], state)} = {}

nextStreetOf(street) ==
  IF street = "preflop" THEN "flop"
  ELSE IF street = "flop" THEN "turn"
  ELSE IF street = "turn" THEN "river"
  ELSE "river"

\* the three showdown exits of moveToNextStreet build the same record
toShowdown(state) ==
  [state EXCEPT !.phase = "showdown",
                !.currentBet = 0,
                !.players = [i \in DOMAIN state.players |->
                               [state.players[i] EXCEPT !.streetBet = 0, !.acted = TRUE]],
                !.potWinners = initialPotWinners(state.players),
                !.lastError = Null]

moveToNextStreet(state) ==
  LET remaining == {i \in DOMAIN state.players :
                      state.players[i].status = "active" \/ state.players[i].status = "allin"}
  IN IF Cardinality(remaining) <= 1 THEN toShowdown(state)
     ELSE IF ~(\E i \in remaining : state.players[i].status = "active") THEN toShowdown(state)
     ELSE IF state.street = "river" THEN toShowdown(state)
     ELSE
       LET players == [i \in DOMAIN state.players |->
                         [state.players[i] EXCEPT !.streetBet = 0,
                                                  !.acted = (state.players[i].status # "active")]]
           actionSeat == nextSeatFrom(players, state.dealerSeat,
                                      {i \in DOMAIN players : players[i].status = "active" /\ players[i].stack > 0})
       IN [state EXCEPT !.phase = "hand",
                        !.street = nextStreetOf(state.street),
                        !.players = players,
                        !.currentBet = 0,
                        !.actionSeat = actionSeat,
                        !.lastError = Null]

(***************************************************************************)
(* Player actions.  A PlayerAction is [type, betTo]; betTo is read for     *)
(* BET_TO only.                                                            *)
(***************************************************************************)
Act(type) == [type |-> type, betTo |-> 0]

BetTo(n) == [type |-> "BET_TO", betTo |-> n]

\* variant: the payment is not capped by the stack
pay_unclamped(ps, seat, amount) ==
  LET p == ps[seat]
      payAmount == Max2(0, amount)
      nextStack == p.stack - payAmount
  IN [ps EXCEPT ![seat] = [p EXCEPT !.stack = nextStack,
                                    !.streetBet = p.streetBet + payAmount,
                                    !.totalCommitted = p.totalCommitted + payAmount,
                                    !.status = IF nextStack = 0 THEN "allin" ELSE p.status]]

\* the closure pay(amount) of applyPlayerAction, acting on players[seat]
pay(ps, seat, amount) ==
  LET p == ps[seat]
      payAmount == Max2(0, Min2(amount, p.stack))
      nextStack == p.stack - payAmount
  IN [ps EXCEPT ![seat] = [p EXCEPT !.stack = nextStack,
                                    !.streetBet = p.streetBet + payAmount,
                                    !.totalCommitted = p.totalCommitted + payAmount,
                                    !.status = IF nextStack = 0 THEN "allin" ELSE p.status]]

\* the players array after the action's branch, before the fold-out test
actedPlayers(state, seat, action) ==
  LET ps == state.players
      p == ps[seat]
  IN IF action.type = "FOLD" THEN [ps EXCEPT ![seat].status = "folded", ![seat].acted = TRUE]
     ELSE IF action.type = "CHECK" THEN [ps EXCEPT ![seat].acted = TRUE]
     ELSE IF action.type = "CALL" THEN [pay(ps, seat, toCallFor(p, state)) EXCEPT ![seat].acted = TRUE]
     ELSE IF action.type = "ALLIN" THEN [pay(ps, seat, p.stack) EXCEPT ![seat].acted = TRUE]
     ELSE IF action.type = "BET_TO" THEN
       LET rawBetTo == clampInt(action.betTo, 0, 1000000000)
           maxBetTo == p.streetBet + p.stack
           targetBetTo == clampInt(rawBetTo, 0, maxBetTo)
       IN [pay(ps, seat, targetBetTo - p.streetBet) EXCEPT ![seat].acted = TRUE]
     ELSE ps

\* the street bet the action announces: it raises when above currentBet
announcedBetTo(state, seat, action, players) ==
  IF action.type = "ALLIN" THEN state.players[seat].streetBet + state.players[seat].stack
  ELSE IF action.type = "BET_TO" THEN players[seat].streetBet
  ELSE 0

\* the early return of the BET_TO branch, Null when the bet is accepted
betToError(state, seat, action) ==
  LET p == state.players[seat]
      rawBetTo == clampInt(action.betTo, 0, 1000000000)
      maxBetTo == p.streetBet + p.stack
      targetBetTo == clampInt(rawBetTo, 0, maxBetTo)
  IN IF rawBetTo <= state.currentBet /\ targetBetTo <= state.currentBet THEN "bet must exceed current bet"
     ELSE IF targetBetTo <= p.streetBet THEN "bet must exceed street bet"
     ELSE Null

\* the validation of applyPlayerAction, Null when the action is applied
playerActError(state, seat, action) ==
  IF seat \notin DOMAIN state.players THEN "invalid seat"
  ELSE IF state.players[seat].seat # seat THEN "invalid seat"
  ELSE IF state.phase # "hand" THEN "not in hand phase"
  ELSE IF seat # state.actionSeat THEN "not this player's turn"
  ELSE IF state.players[seat].status # "active" THEN "player cannot act"
  ELSE IF action.type = "CHECK" /\ toCallFor(state.players[seat], state) # 0 THEN "cannot check"
  ELSE IF action.type = "BET_TO" THEN betToError(state, seat, action)
  ELSE Null

\* variant: the acted flags are left as they are
reopenFor_keepsActed(ps, seat) == ps

\* the raised loop: every other active player has to act again
reopenFor(ps, seat) ==
  [i \in DOMAIN ps |->
     IF ps[i].status = "active" /\ ps[i].seat # seat THEN [ps[i] EXCEPT !.acted = FALSE] ELSE ps[i]]

applyPlayerAction(state, seat, action) ==
  LET err == playerActError(state, seat, action)
  IN IF err # Null THEN [state EXCEPT !.lastError = err]
     ELSE
       LET players == actedPlayers(state, seat, action)
           betTo == announcedBetTo(state, seat, action, players)
           raised == action.type \in {"ALLIN", "BET_TO"} /\ betTo > state.currentBet
           currentBet == IF raised THEN betTo ELSE state.currentBet
       IN IF countRemaining(players) <= 1
          THEN [state EXCEPT !.players = [i \in DOMAIN players |-> [players[i] EXCEPT !.acted = TRUE]],
                             !.currentBet = currentBet,
                             !.phase = "showdown",
                             !.potWinners = initialPotWinners(players),
                             !.lastError = Null]
          ELSE
            LET reopened == IF raised THEN reopenFor(players, seat) ELSE players
                probe == [state EXCEPT !.players = reopened, !.currentBet = currentBet]
                nextSeat == findNextActionSeat(probe, seat)
                nextState == [probe EXCEPT !.actionSeat = nextSeat, !.lastError = Null]
            IN IF isBettingRoundComplete(nextState) THEN moveToNextStreet(nextState)
               ELSE nextState

(***************************************************************************)
(* Settlement and cancel.                                                  *)
(***************************************************************************)
\* the validation of settleHand: a contested pot without a winner
missingWinner(pots, normalizedPotWinners) ==
  \E idx \in DOMAIN pots :
    /\ Len(pots[idx].eligibleSeats) > 1
    /\ Len(winnersAt(normalizedPotWinners, idx)) = 0

\* variant: the settlement leaves the rollback stack as it is
settleHand_keepsRollback(state) ==
  IF NumPlayers(state.players) < 2 THEN state
  ELSE
    LET pots == computeSidePots(state.players)
        normalizedPotWinners == normalizePotWinnersForPots(state.players, pots, state.potWinners)
    IN IF missingWinner(pots, normalizedPotWinners)
       THEN [state EXCEPT !.lastError = "choose winners for every pot"]
       ELSE
         LET payoutMap == distributePots(pots, normalizedPotWinners, state.dealerSeat, NumPlayers(state.players))
             players == [i \in DOMAIN state.players |->
                           LET p == state.players[i]
                               nextStack == p.stack + payoutGet(payoutMap, p.seat)
                           IN [p EXCEPT !.stack = nextStack, !.streetBet = 0, !.totalCommitted = 0,
                                        !.acted = FALSE,
                                        !.status = IF nextStack <= 0 THEN "out" ELSE "active"]]
             dealerSeat == nextSeatFrom(players, state.dealerSeat, {i \in DOMAIN players : players[i].status # "out"})
         IN [state EXCEPT !.phase = "setup",
                          !.players = players,
                          !.dealerSeat = dealerSeat,
                          !.street = "preflop",
                          !.currentBet = 0,
                          !.actionSeat = dealerSeat,
                          !.potWinners = <<>>,
                          !.boardCardsText = "",
                          !.lastError = Null]

settleHand(state) ==
  IF NumPlayers(state.players) < 2 THEN state
  ELSE
    LET pots == computeSidePots(state.players)
        normalizedPotWinners == normalizePotWinnersForPots(state.players, pots, state.potWinners)
    IN IF missingWinner(pots, normalizedPotWinners)
       THEN [state EXCEPT !.lastError = "choose winners for every pot"]
       ELSE
         LET payoutMap == distributePots(pots, normalizedPotWinners, state.dealerSeat, NumPlayers(state.players))
             players == [i \in DOMAIN state.players |->
                           LET p == state.players[i]
                               nextStack == p.stack + payoutGet(payoutMap, p.seat)
                           IN [p EXCEPT !.stack = nextStack, !.streetBet = 0, !.totalCommitted = 0,
                                        !.acted = FALSE,
                                        !.status = IF nextStack <= 0 THEN "out" ELSE "active"]]
             dealerSeat == nextSeatFrom(players, state.dealerSeat, {i \in DOMAIN players : players[i].status # "out"})
         IN [state EXCEPT !.phase = "setup",
                          !.players = players,
                          !.dealerSeat = dealerSeat,
                          !.street = "preflop",
                          !.currentBet = 0,
                          !.actionSeat = dealerSeat,
                          !.potWinners = <<>>,
                          !.boardCardsText = "",
                          !.rollbackStack = <<>>,
                          !.lastError = Null]

\* variant: the refund is the bet of the current street only
cancelHand_refundsStreetBet(state) ==
  IF state.phase # "hand" /\ state.phase # "showdown" THEN state
  ELSE
    LET players == [i \in DOMAIN state.players |->
                      LET p == state.players[i]
                          nextStack == p.stack + p.streetBet
                      IN [p EXCEPT !.stack = nextStack, !.streetBet = 0, !.totalCommitted = 0,
                                   !.acted = FALSE,
                                   !.status = IF nextStack <= 0 THEN "out" ELSE "active",
                                   !.holeCardsText = ""]]
        dealerSeat == clampInt(state.dealerSeat, 0, Max2(0, NumPlayers(players) - 1))
    IN [state EXCEPT !.phase = "setup",
                     !.players = players,
                     !.dealerSeat = dealerSeat,
                     !.street = "preflop",
                     !.currentBet = 0,
                     !.actionSeat = dealerSeat,
                     !.potWinners = <<>>,
                     !.boardCardsText = "",
                     !.rollbackStack = <<>>,
                     !.lastError = Null]

cancelHand(state) ==
  IF state.phase # "hand" /\ state.phase # "showdown" THEN state
  ELSE
    LET players == [i \in DOMAIN state.players |->
                      LET p == state.players[i]
                          nextStack == p.stack + p.totalCommitted
                      IN [p EXCEPT !.stack = nextStack, !.streetBet = 0, !.totalCommitted = 0,
                                   !.acted = FALSE,
                                   !.status = IF nextStack <= 0 THEN "out" ELSE "active",
                                   !.holeCardsText = ""]]
        dealerSeat == clampInt(state.dealerSeat, 0, Max2(0, NumPlayers(players) - 1))
    IN [state EXCEPT !.phase = "setup",
                     !.players = players,
                     !.dealerSeat = dealerSeat,
                     !.street = "preflop",
                     !.currentBet = 0,
                     !.actionSeat = dealerSeat,
                     !.potWinners = <<>>,
                     !.boardCardsText = "",
                     !.rollbackStack = <<>>,
                     !.lastError = Null]

(***************************************************************************)
(* Rollback stack.                                                         *)
(***************************************************************************)
\* variant: the acted flags are not captured
makeRollbackPoint_withoutActed(state) ==
  [phase |-> state.phase,
   street |-> state.street,
   currentBet |-> state.currentBet,
   actionSeat |-> state.actionSeat,
   dealerSeat |-> state.dealerSeat,
   boardCardsText |-> state.boardCardsText,
   potWinners |-> state.potWinners,
   players |-> [i \in DOMAIN state.players |->
                  LET p == state.players[i]
                  IN [seat |-> p.seat, stack |-> p.stack, streetBet |-> p.streetBet,
                      totalCommitted |-> p.totalCommitted, status |-> p.status,
                      acted |-> FALSE, holeCardsText |-> p.holeCardsText]]]

makeRollbackPoint(state) ==
  [phase |-> state.phase,
   street |-> state.street,
   currentBet |-> state.currentBet,
   actionSeat |-> state.actionSeat,
   dealerSeat |-> state.dealerSeat,
   boardCardsText |-> state.boardCardsText,
   potWinners |-> state.potWinners,
   players |-> [i \in DOMAIN state.players |->
                  LET p == state.players[i]
                  IN [seat |-> p.seat, stack |-> p.stack, streetBet |-> p.streetBet,
                      totalCommitted |-> p.totalCommitted, status |-> p.status,
                      acted |-> p.acted, holeCardsText |-> p.holeCardsText]]]

\* bySeat.get(seat): the last snapshot entry of that seat, <<>> when there is none
bySeat(point, seat) ==
  LET hits == {i \in DOMAIN point.players : point.players[i].seat = seat}
  IN IF hits = {} THEN <<>>
     ELSE <<point.players[CHOOSE i \in hits : \A j \in hits : j <= i]>>

rollbackOnce(state) ==
  LET stack == state.rollbackStack
  IN IF Len(stack) = 0 THEN state
     ELSE
       LET last == stack[Len(stack)]
           players == [i \in DOMAIN state.players |->
                         LET p == state.players[i]
                             prev == bySeat(last, p.seat)
                         IN IF prev = <<>> THEN p
                            ELSE [p EXCEPT !.stack = prev[1].stack,
                                           !.streetBet = prev[1].streetBet,
                                           !.totalCommitted = prev[1].totalCommitted,
                                           !.status = prev[1].status,
                                           !.acted = prev[1].acted,
                                           !.holeCardsText = prev[1].holeCardsText]]
       IN [state EXCEPT !.phase = last.phase,
                        !.street = last.street,
                        !.currentBet = last.currentBet,
                        !.actionSeat = last.actionSeat,
                        !.dealerSeat = last.dealerSeat,
                        !.boardCardsText = last.boardCardsText,
                        !.potWinners = last.potWinners,
                        !.players = players,
                        !.rollbackStack = SubSeq(stack, 1, Len(stack) - 1),
                        !.lastError = Null]

\* variant: once the stack is full the new point is the one left out
pushRollback_keepOldest(stack, point) ==
  LET rollbackStack == Append(stack, point)
  IN IF Len(rollbackStack) > maxRollback
     THEN SubSeq(rollbackStack, 1, maxRollback)
     ELSE rollbackStack

\* the push of the PLAYER_ACT branch: the newest maxRollback points are kept
pushRollback(stack, point) ==
  LET rollbackStack == Append(stack, point)
  IN IF Len(rollbackStack) > maxRollback
     THEN SubSeq(rollbackStack, Len(rollbackStack) - maxRollback + 1, Len(rollbackStack))
     ELSE rollbackStack

\* the three guards of the PLAYER_ACT branch that skip the push
skipsRollbackPoint(cleared, seat) ==
  IF cleared.phase # "hand" THEN TRUE
  ELSE IF seat # cleared.actionSeat THEN TRUE
  ELSE IF seat \notin DOMAIN cleared.players THEN TRUE
  ELSE cleared.players[seat].seat # seat \/ cleared.players[seat].status # "active"

reducePlayerAct(state, seat, action) ==
  LET cleared == normalizeAfterError(state)
  IN IF skipsRollbackPoint(cleared, seat) THEN applyPlayerAction(cleared, seat, action)
     ELSE applyPlayerAction(
            [cleared EXCEPT !.rollbackStack = pushRollback(cleared.rollbackStack, makeRollbackPoint(cleared))],
            seat, action)

\* The input state object once the PLAYER_ACT call has returned.
\* applyPlayerAction copies the players array, not the player objects, and
\* replaces the actor's object only; its raised loop then writes
\* acted = false into the objects of the other active players, which are the
\* objects of the input state.
inputAfterPlayerAct(state, seat, action) ==
  LET cleared == normalizeAfterError(state)
  IN IF playerActError(cleared, seat, action) # Null THEN state
     ELSE
       LET players == actedPlayers(cleared, seat, action)
           betTo == announcedBetTo(cleared, seat, action, players)
           raised == action.type \in {"ALLIN", "BET_TO"} /\ betTo > cleared.currentBet
       IN IF countRemaining(players) <= 1 \/ ~raised THEN state
          ELSE [state EXCEPT !.players =
                  [i \in DOMAIN state.players |->
                     IF i # seat /\ state.players[i].status = "active"
                     THEN [state.players[i] EXCEPT !.acted = FALSE]
                     ELSE state.players[i]]]

\* the smallest bet or raise target the table view offers
minRaiseTo(state) ==
  IF state.currentBet = 0 THEN state.config.bigBlind
  ELSE state.currentBet + Max2(1, state.config.bigBlind)

(***************************************************************************)
(* The other branches of the reducer.                                      *)
(***************************************************************************)
\* p.name.trim() || `player${idx + 1}`; names are single words or blank
nameOrDefault(name, idx) == IF name \in {"", " "} THEN defaultName(idx) ELSE name

reduceSetConfig(state, cfg) ==
  LET cleared == normalizeAfterError(state)
  IN IF hasActiveSession(cleared.session)
     THEN [cleared EXCEPT !.lastError = "session active: rules are locked"]
     ELSE [cleared EXCEPT !.config = [smallBlind |-> clampInt(cfg.smallBlind, 0, 1000000),
                                      bigBlind |-> clampInt(cfg.bigBlind, 0, 1000000),
                                      ante |-> clampInt(cfg.ante, 0, 1000000)]]

\* the name/stack matching loop of SETUP_SET_PLAYERS: pairs <<old index, new index>>
RECURSIVE matchPlayers(_, _, _, _)
matchPlayers(old, requested, i, j) ==
  IF i >= NumPlayers(old) \/ j >= Len(requested) THEN {}
  ELSE IF requested[j + 1].name = old[i].name /\ requested[j + 1].stack = old[i].stack
       THEN {<<i, j>>} \cup matchPlayers(old, requested, i + 1, j + 1)
       ELSE matchPlayers(old, requested, i + 1, j)

\* the dealer seat that follows the old dealer through a change of the player list
remapDealer(cleared, oldToNew) ==
  LET mapped == {pr[1] : pr \in oldToNew}
      get(o) == (CHOOSE pr \in oldToNew : pr[1] = o)[2]
      after == {i \in mapped : i > cleared.dealerSeat}
      before == {i \in mapped : i < cleared.dealerSeat}
  IN IF cleared.dealerSeat \in mapped THEN get(cleared.dealerSeat)
     ELSE IF after # {} THEN get(SetMin(after))
     ELSE IF before # {} THEN get(CHOOSE i \in before : \A k \in before : k <= i)
     ELSE 0

\* SETUP_SET_PLAYERS while a session is active
setPlayersInSession(cleared, raw) ==
  LET requested == [k \in DOMAIN raw |->
                      [name |-> nameOrDefault(raw[k].name, k - 1),
                       stack |-> clampInt(raw[k].stack, 0, 1000000000)]]
      old == cleared.players
  IN IF cleared.phase # "setup" THEN [cleared EXCEPT !.lastError = "players change in setup only"]
     ELSE IF Len(requested) = NumPlayers(old)
     THEN IF \E idx \in DOMAIN old : requested[idx + 1].stack # old[idx].stack
          THEN [cleared EXCEPT !.lastError = "session active: stacks are locked"]
          ELSE [cleared EXCEPT !.players = [idx \in DOMAIN old |->
                                              [old[idx] EXCEPT !.seat = idx, !.name = requested[idx + 1].name]],
                               !.lastError = Null]
     ELSE
       LET oldToNew == matchPlayers(old, requested, 0, 0)
           newIdxs == {pr[2] : pr \in oldToNew}
           oldOf(n) == (CHOOSE pr \in oldToNew : pr[2] = n)[1]
           nextPlayers == [idx \in 0..(Len(requested) - 1) |->
                             newPlayer(idx, requested[idx + 1].name, requested[idx + 1].stack,
                                       IF requested[idx + 1].stack > 0 THEN "active" ELSE "out")]
           dealerSeat == clampInt(remapDealer(cleared, oldToNew), 0, Max2(0, Len(requested) - 1))
           prevSession == cleared.session[1]
           session == [prevSession EXCEPT
                         !.initialStacks = [k \in DOMAIN requested |->
                            IF (k - 1) \in newIdxs
                            THEN IF (oldOf(k - 1) + 1) \in DOMAIN prevSession.initialStacks
                                 THEN prevSession.initialStacks[oldOf(k - 1) + 1]
                                 ELSE old[oldOf(k - 1)].stack
                            ELSE nextPlayers[k - 1].stack],
                         !.rebuys = [k \in DOMAIN requested |->
                            IF (k - 1) \in newIdxs /\ (oldOf(k - 1) + 1) \in DOMAIN prevSession.rebuys
                            THEN prevSession.rebuys[oldOf(k - 1) + 1]
                            ELSE 0]]
       IN [cleared EXCEPT !.phase = "setup",
                          !.players = nextPlayers,
                          !.dealerSeat = dealerSeat,
                          !.actionSeat = dealerSeat,
                          !.currentBet = 0,
                          !.boardCardsText = "",
                          !.potWinners = <<>>,
                          !.rollbackStack = <<>>,
                          !.session = <<session>>,
                          !.lastError = Null]

\* raw is the action's players array: a sequence of [name, stack]
reduceSetPlayers(state, raw) ==
  LET cleared == normalizeAfterError(state)
  IN IF Len(raw) < 2 THEN [cleared EXCEPT !.lastError = "at least 2 players"]
     ELSE IF Len(raw) > MaxPlayers THEN [cleared EXCEPT !.lastError = "at most 10 players"]
     ELSE IF hasActiveSession(cleared.session) THEN setPlayersInSession(cleared, raw)
     ELSE [cleared EXCEPT
             !.players = [idx \in 0..(Len(raw) - 1) |->
                            newPlayer(idx, nameOrDefault(raw[idx + 1].name, idx),
                                      clampInt(raw[idx + 1].stack, 0, 1000000000),
                                      IF raw[idx + 1].stack > 0 THEN "active" ELSE "out")],
             !.dealerSeat = 0,
             !.phase = "setup",
             !.rollbackStack = <<>>]

reduceSetBoard(state, text) == [normalizeAfterError(state) EXCEPT !.boardCardsText = text]

reduceSetHole(state, seat, text) ==
  LET cleared == normalizeAfterError(state)
  IN [cleared EXCEPT !.players = [i \in DOMAIN cleared.players |->
                                    IF cleared.players[i].seat = seat
                                    THEN [cleared.players[i] EXCEPT !.holeCardsText = text]
                                    ELSE cleared.players[i]]]

reduceSetPotWinners(state, potIndexIn, seats) ==
  LET cleared == normalizeAfterError(state)
      pots == computeSidePots(cleared.players)
      potIndex == clampInt(potIndexIn, 0, Max2(0, Len(pots) - 1))
      base == cleared.potWinners
      merged == [k \in DOMAIN pots |->
                   IF (k - 1) # potIndex
                   THEN IF k \in DOMAIN base THEN base[k]
                        ELSE IF Len(pots[k].eligibleSeats) = 1 THEN <<pots[k].eligibleSeats[1]>> ELSE <<>>
                   ELSE IF Len(pots[k].eligibleSeats) = 1 THEN <<pots[k].eligibleSeats[1]>>
                   ELSE normalizeWinnerSeats(cleared.players, pots[k], seats)]
  IN [cleared EXCEPT !.potWinners = merged]

\* SESSION_START: ignored while a session is active
reduceSessionStart(state, id, startedAt) ==
  LET cleared == normalizeAfterError(state)
  IN IF hasActiveSession(cleared.session) THEN cleared
     ELSE [cleared EXCEPT
             !.phase = "setup",
             !.street = "preflop",
             !.currentBet = 0,
             !.boardCardsText = "",
             !.potWinners = <<>>,
             !.rollbackStack = <<>>,
             !.actionSeat = cleared.dealerSeat,
             !.session = <<[id |-> id,
                            startedAt |-> startedAt,
                            endedAt |-> <<>>,
                            initialStacks |-> [k \in 1..NumPlayers(cleared.players) |-> cleared.players[k - 1].stack],
                            rebuys |-> [k \in 1..NumPlayers(cleared.players) |-> 0]]>>]

\* SESSION_END: ignored without a session or when session.endedAt is truthy
reduceSessionEnd(state, endedAt) ==
  LET cleared == normalizeAfterError(state)
  IN IF cleared.session = NoSession \/ sessionEnded(cleared.session) THEN cleared
     ELSE [cleared EXCEPT
             !.phase = "setup",
             !.street = "preflop",
             !.currentBet = 0,
             !.boardCardsText = "",
             !.potWinners = <<>>,
             !.rollbackStack = <<>>,
             !.session = <<[cleared.session[1] EXCEPT !.endedAt = <<endedAt>>]>>,
             !.lastError = Null]

\* REBUY: the amount is clamped to 0..1e9 and added to the seat's stack
reduceRebuy(state, seat, amountIn) ==
  LET cleared == normalizeAfterError(state)
      amount == clampInt(amountIn, 0, 1000000000)
      players == [i \in DOMAIN cleared.players |->
                    LET p == cleared.players[i]
                        nextStack == p.stack + amount
                    IN IF p.seat # seat THEN p
                       ELSE [p EXCEPT !.stack = nextStack,
                                      !.status = IF nextStack > 0 /\ p.status = "out" THEN "active" ELSE p.status]]
      session == IF hasActiveSession(cleared.session)
                 THEN <<[cleared.session[1] EXCEPT
                           !.rebuys = [k \in DOMAIN cleared.session[1].rebuys |->
                                         IF k - 1 = seat THEN cleared.session[1].rebuys[k] + amount
                                         ELSE cleared.session[1].rebuys[k]]]>>
                 ELSE cleared.session
  IN [cleared EXCEPT !.players = players, !.session = session]

\* RESET_SESSION: back to the session's initial stacks, without a session
reduceResetSession(state) ==
  LET cleared == normalizeAfterError(state)
      useInitial == /\ cleared.session # NoSession
                    /\ Len(cleared.session[1].initialStacks) = NumPlayers(cleared.players)
      players == [idx \in DOMAIN cleared.players |->
                    LET p == cleared.players[idx]
                        stack == clampInt(IF useInitial THEN cleared.session[1].initialStacks[idx + 1] ELSE p.stack,
                                          0, 1000000000)
                    IN [p EXCEPT !.seat = idx,
                                 !.stack = stack,
                                 !.streetBet = 0,
                                 !.totalCommitted = 0,
                                 !.status = IF stack > 0 THEN "active" ELSE "out",
                                 !.acted = FALSE,
                                 !.holeCardsText = ""]]
      dealerSeat == clampInt(cleared.dealerSeat, 0, Max2(0, NumPlayers(players) - 1))
  IN [cleared EXCEPT !.phase = "setup",
                     !.players = players,
                     !.dealerSeat = dealerSeat,
                     !.actionSeat = dealerSeat,
                     !.street = "preflop",
                     !.currentBet = 0,
                     !.boardCardsText = "",
                     !.potWinners = <<>>,
                     !.rollbackStack = <<>>,
                     !.session = NoSession,
                     !.lastError = Null]

\* RESET_GAME
reduceResetGame(state) == createInitialState

reduceSetPotWinnersAll(state, potWinners) ==
  LET cleared == normalizeAfterError(state)
      pots == computeSidePots(cleared.players)
  IN [cleared EXCEPT !.potWinners = normalizePotWinnersForPots(cleared.players, pots, potWinners)]

reduceStartHand(state) == beginHand(normalizeAfterError(state))

reduceCancelHand(state) == cancelHand(normalizeAfterError(state))

reduceRollback(state) == rollbackOnce(normalizeAfterError(state))

reduceNextStreet(state) == moveToNextStreet(normalizeAfterError(state))

reduceSettleHand(state) == settleHand(normalizeAfterError(state))

\* the end of the reducer, reached by an action whose type no branch tests
reduceUnrecognised(state) == normalizeAfterError(state)

\* SYNC_SET_SNAPSHOT: the incoming state replaces the local one; its winner
\* lists are normalised for the pots of its players (a state made by this
\* reducer always has a potWinners array, rollbackStack and a lastError that
\* is a string or null)
reduceSyncSetSnapshot(state, incoming) ==
  LET pots == computeSidePots(incoming.players)
  IN [incoming EXCEPT !.potWinners = normalizePotWinnersForPots(incoming.players, pots, incoming.potWinners)]

\* the reducer, for the actions the synchronised clients dispatch
reducer(state, action) ==
  CASE action.type = "SETUP_SET_PLAYERS" -> reduceSetPlayers(state, action.players)
    [] action.type = "START_HAND" -> reduceStartHand(state)
    [] action.type = "PLAYER_ACT" -> reducePlayerAct(state, action.seat, action.action)
    [] action.type = "SYNC_SET_SNAPSHOT" -> reduceSyncSetSnapshot(state, action.state)
    [] OTHER -> reduceUnrecognised(state)

(***************************************************************************)
(* The state machine.  `state` is the GameState held by the caller         *)
(* (useReducer); every action replaces it by the reducer's result.         *)
(* `probe` holds the arguments and results of the pot engine when it is    *)
(* called on its own (computeSidePots and distributePots are exported).    *)
(* The other variables are history variables: they record facts about the  *)
(* run and never influence `state`.                                        *)
(*   hands     - how often the table has left setup or restarted a hand    *)
(*   handBase  - the sum of all stacks just before the last successful     *)
(*               START_HAND, while only PLAYER_ACT, ROLLBACK, NEXT_STREET, *)
(*               SET_POT_WINNERS, SETTLE_HAND and CANCEL_HAND followed it; *)
(*               -1 otherwise                                              *)
(*   pureActs  - n when the run since the last successful START_HAND is    *)
(*               exactly n accepted PLAYER_ACTs; -1 otherwise              *)
(*   handStart - <<the state right after that START_HAND>> while only      *)
(*               PLAYER_ACT and ROLLBACK followed it, else <<>>            *)
(***************************************************************************)
(***************************************************************************)
(* The hand evaluator (src/src/poker/handEval.ts).  A text is the          *)
(* sequence of its tokens (what is left after the separators are replaced  *)
(* by spaces and the text is split on white space) and a token is the      *)
(* sequence of its characters; the suit symbols are written "spade",       *)
(* "heart", "diamond" and "club"; a card's text `${rKey}${sKey}` is the   *)
(* pair <<rKey, sKey>>.  A value that may be null is Null or, where the    *)
(* value is not a string, a sequence of at most one element.               *)
(***************************************************************************)
rankMap ==
  [k \in {"2", "3", "4", "5", "6", "7", "8", "9", "T", "J", "Q", "K", "A"} |->
     CASE k = "2" -> 2 [] k = "3" -> 3 [] k = "4" -> 4 [] k = "5" -> 5
       [] k = "6" -> 6 [] k = "7" -> 7 [] k = "8" -> 8 [] k = "9" -> 9
       [] k = "T" -> 10 [] k = "J" -> 11 [] k = "Q" -> 12 [] k = "K" -> 13
       [] k = "A" -> 14]

\* String.prototype.toUpperCase, on the characters the inputs are made of
toUpperCase(ch) ==
  CASE ch = "a" -> "A" [] ch = "k" -> "K" [] ch = "q" -> "Q" [] ch = "j" -> "J"
    [] ch = "t" -> "T" [] ch = "s" -> "S" [] ch = "h" -> "H" [] ch = "d" -> "D"
    [] ch = "c" -> "C" [] ch = "x" -> "X" [] OTHER -> ch

\* String.prototype.toLowerCase, on the characters the inputs are made of
toLowerCase(ch) ==
  CASE ch = "A" -> "a" [] ch = "K" -> "k" [] ch = "Q" -> "q" [] ch = "J" -> "j"
    [] ch = "T" -> "t" [] ch = "S" -> "s" [] ch = "H" -> "h" [] ch = "D" -> "d"
    [] ch = "C" -> "c" [] ch = "X" -> "x" [] OTHER -> ch

normalizeSuitChar(ch) ==
  LET c == toLowerCase(ch)
  IN IF c \in {"s", "h", "d", "c"} THEN c
     ELSE IF ch = "spade" THEN "s"
     ELSE IF ch = "heart" THEN "h"
     ELSE IF ch = "diamond" THEN "d"
     ELSE IF ch = "club" THEN "c"
     ELSE Null

normalizeRankText(text) ==
  LET t == [i \in DOMAIN text |-> toUpperCase(text[i])]
  IN IF t = <<"1", "0">> THEN "T"
     ELSE IF Len(t) = 1 /\ t[1] \in DOMAIN rankMap THEN t[1]
     ELSE Null

\* the card a token stands for: <<card>>, or <<>> when it cannot be parsed
parseToken(token) ==
  LET rankText == IF Len(token) = 2 THEN <<token[1]>> ELSE <<"1", "0">>
      suitText == IF Len(token) = 2 THEN token[2] ELSE token[3]
      rKey == normalizeRankText(rankText)
      sKey == normalizeSuitChar(suitText)
  IN IF ~(Len(token) = 2 \/ (Len(token) = 3 /\ SubSeq(token, 1, 2) = <<"1", "0">>)) THEN <<>>
     ELSE IF rKey = Null \/ sKey = Null THEN <<>>
     ELSE <<[r |-> rankMap[rKey], s |-> sKey, text |-> <<rKey, sKey>>]>>

\* the loop of parseCardsText from token i on; cards are those parsed so far
RECURSIVE parseCardsFrom(_, _, _)
parseCardsFrom(parts, i, cards) ==
  IF i > Len(parts) THEN [cards |-> cards, error |-> Null]
  ELSE LET parsed == parseToken(parts[i])
       IN IF parsed = <<>> THEN [cards |-> <<>>, error |-> "cannot parse card"]
          ELSE IF \E k \in DOMAIN cards : cards[k].text = parsed[1].text
            THEN [cards |-> <<>>, error |-> "duplicate card"]
          ELSE parseCardsFrom(parts, i + 1, Append(cards, parsed[1]))

parseCardsText(input) == parseCardsFrom(input, 1, <<>>)

\* Array.prototype.sort((a, b) => b - a) on numbers
RECURSIVE sortDesc(_)
sortDesc(q) ==
  IF q = <<>> THEN <<>>
  ELSE LET i == CHOOSE i \in DOMAIN q : \A j \in DOMAIN q : q[i] >= q[j]
       IN <<q[i]>> \o sortDesc(SubSeq(q, 1, i - 1) \o SubSeq(q, i + 1, Len(q)))

\* Array.prototype.sort((a, b) => a - b) on numbers
RECURSIVE sortAsc(_)
sortAsc(q) ==
  IF q = <<>> THEN <<>>
  ELSE LET i == CHOOSE i \in DOMAIN q : \A j \in DOMAIN q : q[i] <= q[j]
       IN <<q[i]>> \o sortAsc(SubSeq(q, 1, i - 1) \o SubSeq(q, i + 1, Len(q)))

ranksDesc(cards) == sortDesc([i \in DOMAIN cards |-> cards[i].r])

isFlush(cards) == \A i \in DOMAIN cards : cards[i].s = cards[1].s

\* variant: the ace is only ever high
straightHigh_aceHigh(ranks) ==
  LET uniq == sortDesc(Uniq(ranks))
  IN IF Len(uniq) # 5 THEN <<>>
     ELSE IF \E i \in 2..Len(uniq) : uniq[i - 1] - uniq[i] # 1 THEN <<>>
     ELSE <<uniq[1]>>

\* <<high card>> of the straight the five ranks form, <<>> (null) if none
straightHigh(ranks) ==
  LET uniq == sortDesc(Uniq(ranks))
  IN IF Len(uniq) # 5 THEN <<>>
     ELSE IF uniq = <<14, 5, 4, 3, 2>> THEN <<5>>
     ELSE IF \E i \in 2..Len(uniq) : uniq[i - 1] - uniq[i] # 1 THEN <<>>
     ELSE <<uniq[1]>>

\* the groups of `rs` (a set of ranks of cards), most cards first and,
\* among equal counts, highest rank first
RECURSIVE groupsFrom(_, _)
groupsFrom(cards, rs) ==
  IF rs = {} THEN <<>>
  ELSE LET count(r) == Cardinality({i \in DOMAIN cards : cards[i].r = r})
           first == CHOOSE r \in rs :
                      \A o \in rs : count(r) > count(o) \/ (count(r) = count(o) /\ r >= o)
       IN <<[r |-> first, c |-> count(first)]>> \o groupsFrom(cards, rs \ {first})

groupByRank(cards) == groupsFrom(cards, {cards[i].r : i \in DOMAIN cards})

\* the ranks of the groups of one card, highest first
kickersOf(groups) ==
  LET singles == SelectSeq(groups, LAMBDA g : g.c = 1)
  IN sortDesc([i \in DOMAIN singles |-> singles[i].r])

\* the categories are named in Chinese in the source: high card, pair, two
\* pairs, three of a kind, straight, flush, full house, four of a kind,
\* straight flush
evaluate5(cards) ==
  LET ranks == ranksDesc(cards)
      flush == isFlush(cards)
      sh == straightHigh(ranks)
      groups == groupByRank(cards)
      count(k) == IF k <= Len(groups) THEN groups[k].c ELSE 0
  IN IF flush /\ sh # <<>> THEN [category |-> 8, tiebreak |-> sh, name |-> "straight flush"]
     ELSE IF count(1) = 4
       THEN LET quad == groups[1].r
                kicker == SelectSeq(groups, LAMBDA g : g.r # quad)[1].r
            IN [category |-> 7, tiebreak |-> <<quad, kicker>>, name |-> "four of a kind"]
     ELSE IF count(1) = 3 /\ count(2) = 2
       THEN [category |-> 6, tiebreak |-> <<groups[1].r, groups[2].r>>, name |-> "full house"]
     ELSE IF flush THEN [category |-> 5, tiebreak |-> ranks, name |-> "flush"]
     ELSE IF sh # <<>> THEN [category |-> 4, tiebreak |-> sh, name |-> "straight"]
     ELSE IF count(1) = 3
       THEN [category |-> 3, tiebreak |-> <<groups[1].r>> \o kickersOf(groups), name |-> "three of a kind"]
     ELSE IF count(1) = 2 /\ count(2) = 2
       THEN LET pairHigh == Max2(groups[1].r, groups[2].r)
                pairLow == Min2(groups[1].r, groups[2].r)
                kicker == SelectSeq(groups, LAMBDA g : g.c = 1)[1].r
            IN [category |-> 2, tiebreak |-> <<pairHigh, pairLow, kicker>>, name |-> "two pairs"]
     ELSE IF count(1) = 2
       THEN [category |-> 1, tiebreak |-> <<groups[1].r>> \o kickersOf(groups), name |-> "pair"]
     ELSE [category |-> 0, tiebreak |-> ranks, name |-> "high card"]

\* the loop of compareHands from position i of the tiebreaks on
RECURSIVE compareTiebreakFrom(_, _, _)
compareTiebreakFrom(a, b, i) ==
  IF i > Max2(Len(a.tiebreak), Len(b.tiebreak)) THEN 0
  ELSE LET av == IF i <= Len(a.tiebreak) THEN a.tiebreak[i] ELSE 0
           bv == IF i <= Len(b.tiebreak) THEN b.tiebreak[i] ELSE 0
       IN IF av # bv THEN av - bv ELSE compareTiebreakFrom(a, b, i + 1)

\* variant: only the category is compared
compareHands_categoryOnly(a, b) == a.category - b.category

compareHands(a, b) ==
  IF a.category # b.category THEN a.category - b.category
  ELSE compareTiebreakFrom(a, b, 1)

\* the index lists of choose5FromN, in the order the loops make them
RECURSIVE combosFrom(_, _, _)
combosFrom(n, k, start) ==
  IF k = 0 THEN <<<<>>>>
  ELSE IF start > n - k THEN <<>>
  ELSE LET rest == combosFrom(n, k - 1, start + 1)
       IN [i \in DOMAIN rest |-> <<start>> \o rest[i]] \o combosFrom(n, k, start + 1)

choose5FromN(n) == combosFrom(n, 5, 0)

combos7 == choose5FromN(7)

\* the cards at the indices of one combination
pick(cards, combo) == [k \in DOMAIN combo |-> cards[combo[k] + 1]]

\* the loop of evaluateBestOf7 from combination i on
RECURSIVE bestFrom(_, _, _)
bestFrom(cards, i, best) ==
  IF i > Len(combos7) THEN best
  ELSE LET rank == evaluate5(pick(cards, combos7[i]))
       IN bestFrom(cards, i + 1, IF compareHands(rank, best) > 0 THEN rank ELSE best)

\* called with seven cards only
evaluateBestOf7(cards) == bestFrom(cards, 2, evaluate5(pick(cards, combos7[1])))

\* the loop over playerHoles of computePotWinnersFromInputs from entry i on;
\* ranks is the Map built so far, a function from seats to ranks
RECURSIVE ranksFrom(_, _, _, _)
ranksFrom(board, playerHoles, i, ranks) ==
  IF i > Len(playerHoles) THEN [ranks |-> ranks, error |-> <<>>]
  ELSE LET p == playerHoles[i]
           holeParsed == parseCardsText(p.holeText)
           all == board \o holeParsed.cards
       IN IF p.folded THEN ranksFrom(board, playerHoles, i + 1, ranks)
          ELSE IF holeParsed.error # Null
            THEN [ranks |-> <<>>, error |-> <<"player", p.seat + 1, holeParsed.error>>]
          ELSE IF Len(holeParsed.cards) # 2
            THEN [ranks |-> <<>>, error |-> <<"player", p.seat + 1, "the hole needs exactly 2 cards">>]
          ELSE IF \E j, k \in DOMAIN all : j < k /\ all[j].text = all[k].text
            THEN [ranks |-> <<>>, error |-> <<"board and hole share a card">>]
          ELSE ranksFrom(board, playerHoles, i + 1,
                         [s \in (DOMAIN ranks) \cup {p.seat} |->
                            IF s = p.seat THEN evaluateBestOf7(all) ELSE ranks[s]])

\* the best rank among the seats, taken in order: <<rank>>, or <<>> (null)
RECURSIVE bestRankOf(_, _, _, _)
bestRankOf(ranks, seats, i, best) ==
  IF i > Len(seats) THEN best
  ELSE LET r == ranks[seats[i]]
       IN bestRankOf(ranks, seats, i + 1,
                     IF best = <<>> \/ compareHands(r, best[1]) > 0 THEN <<r>> ELSE best)

\* variant: \* variant: every eligible seat that has a rank wins
potWinnersOf_allRanked(pot, ranks) ==
  LET seats == SelectSeq(pot.eligibleSeats, LAMBDA s : s \in DOMAIN ranks)
      best == bestRankOf(ranks, seats, 1, <<>>)
  IN IF Len(pot.eligibleSeats) = 1 THEN <<pot.eligibleSeats[1]>>
     ELSE IF best = <<>> THEN <<>>
     ELSE sortAsc(seats)

\* the winners of one pot
potWinnersOf(pot, ranks) ==
  LET seats == SelectSeq(pot.eligibleSeats, LAMBDA s : s \in DOMAIN ranks)
      best == bestRankOf(ranks, seats, 1, <<>>)
  IN IF Len(pot.eligibleSeats) = 1 THEN <<pot.eligibleSeats[1]>>
     ELSE IF best = <<>> THEN <<>>
     ELSE sortAsc(SelectSeq(seats, LAMBDA s : compareHands(ranks[s], best[1]) = 0))

computePotWinnersFromInputs(boardText, playerHoles, pots) ==
  LET boardParsed == parseCardsText(boardText)
      ranked == ranksFrom(boardParsed.cards, playerHoles, 1, <<>>)
      potWinners == [k \in DOMAIN pots |-> potWinnersOf(pots[k], ranked.ranks)]
  IN IF boardParsed.error # Null
       THEN [potWinners |-> <<>>, ranks |-> <<>>, error |-> <<boardParsed.error>>]
     ELSE IF Len(boardParsed.cards) # 5
       THEN [potWinners |-> <<>>, ranks |-> <<>>, error |-> <<"the board needs exactly 5 cards">>]
     ELSE IF ranked.error # <<>>
       THEN [potWinners |-> <<>>, ranks |-> <<>>, error |-> ranked.error]
     ELSE IF \E k \in DOMAIN pots : Len(pots[k].eligibleSeats) > 1 /\ potWinners[k] = <<>>
       THEN [potWinners |-> <<>>, ranks |-> ranked.ranks, error |-> <<"no player to compare">>]
     ELSE [potWinners |-> potWinners, ranks |-> ranked.ranks, error |-> <<>>]

VARIABLES state, probe, sync, hands, handBase, pureActs, handStart

vars == <<state, probe, sync, hands, handBase, pureActs, handStart>>

NoProbe == [step |-> "none"]

\* no synchronisation layer: the reducer runs alone
NoSync == [latestSnapshot |-> <<>>]

\* an action outside the hand's own actions ends what the history variables follow
Forget ==
  /\ handBase' = -1
  /\ pureActs' = -1
  /\ handStart' = <<>>

\* an action of the hand other than PLAYER_ACT and ROLLBACK
KeepBase ==
  /\ handBase' = handBase
  /\ pureActs' = -1
  /\ handStart' = <<>>

StartHand ==
  LET next == reduceStartHand(state)
      started == next.lastError = Null
  IN /\ state' = next
     /\ hands' = IF started THEN hands + 1 ELSE hands
     /\ handBase' = IF started THEN SumStacks(state.players) ELSE handBase
     /\ pureActs' = IF started THEN 0 ELSE -1
     /\ handStart' = IF started THEN <<next>> ELSE <<>>
     /\ UNCHANGED <<probe, sync>>

PlayerAct(seat, action) ==
  LET accepted == playerActError(normalizeAfterError(state), seat, action) = Null
      pure == accepted /\ pureActs >= 0
  IN /\ state' = reducePlayerAct(state, seat, action)
     /\ pureActs' = IF pure THEN pureActs + 1 ELSE -1
     /\ UNCHANGED <<probe, sync, hands, handBase, handStart>>

Rollback ==
  /\ state' = reduceRollback(state)
  /\ pureActs' = -1
  /\ UNCHANGED <<probe, sync, hands, handBase, handStart>>

NextStreet ==
  LET next == reduceNextStreet(state)
  IN /\ state' = next
     /\ hands' = IF state.phase = "setup" /\ next.phase # "setup" THEN hands + 1 ELSE hands
     /\ KeepBase
     /\ UNCHANGED <<probe, sync>>

SetPotWinners(potIndex, seats) ==
  /\ state' = reduceSetPotWinners(state, potIndex, seats)
  /\ KeepBase
  /\ UNCHANGED <<probe, sync, hands>>

SetPotWinnersAll(potWinners) ==
  /\ state' = reduceSetPotWinnersAll(state, potWinners)
  /\ KeepBase
  /\ UNCHANGED <<probe, sync, hands>>

SettleHand ==
  /\ state' = reduceSettleHand(state)
  /\ KeepBase
  /\ UNCHANGED <<probe, sync, hands>>

CancelHand ==
  /\ state' = reduceCancelHand(state)
  /\ KeepBase
  /\ UNCHANGED <<probe, sync, hands>>

\* an action whose type tag the reducer does not know
Unrecognised ==
  /\ state' = reducer(state, [type |-> "UNKNOWN"])
  /\ KeepBase
  /\ UNCHANGED <<probe, sync, hands>>

SetBoard(text) ==
  /\ state' = reduceSetBoard(state, text)
  /\ Forget
  /\ UNCHANGED <<probe, sync, hands>>

SessionStart(id, startedAt) ==
  /\ state' = reduceSessionStart(state, id, startedAt)
  /\ Forget
  /\ UNCHANGED <<probe, sync, hands>>

SessionEnd(endedAt) ==
  /\ state' = reduceSessionEnd(state, endedAt)
  /\ Forget
  /\ UNCHANGED <<probe, sync, hands>>

SetConfig(cfg) ==
  /\ state' = reduceSetConfig(state, cfg)
  /\ Forget
  /\ UNCHANGED <<probe, sync, hands>>

SetPlayers(raw) ==
  /\ state' = reduceSetPlayers(state, raw)
  /\ Forget
  /\ UNCHANGED <<probe, sync, hands>>

Rebuy(seat, amount) ==
  /\ state' = reduceRebuy(state, seat, amount)
  /\ Forget
  /\ UNCHANGED <<probe, sync, hands>>

ResetSession ==
  /\ state' = reduceResetSession(state)
  /\ Forget
  /\ UNCHANGED <<probe, sync, hands>>

ResetGame ==
  /\ state' = reduceResetGame(state)
  /\ Forget
  /\ UNCHANGED <<probe, sync, hands>>

(***************************************************************************)
(* Spec: one small table, every hand action offered in every phase.        *)
(* The runs start from the tables the setup screen produces.  Pot winners  *)
(* are chosen at showdown, as the table view does.                         *)
(***************************************************************************)
MaxHands == 1

MaxUndo == 4

playersOf(stacks) == [k \in DOMAIN stacks |-> [name |-> "", stack |-> stacks[k]]]

ConfigInputs ==
  {[smallBlind |-> 1, bigBlind |-> 2, ante |-> 0],
   [smallBlind |-> 1, bigBlind |-> 2, ante |-> 1]}

PlayersInputs == {playersOf(<<2, 5>>), playersOf(<<5, 2>>)}

SeatInputs == 0..2

BetInputs == {3}

ActionInputs == {Act("FOLD"), Act("CHECK"), Act("CALL"), Act("ALLIN")} \cup {BetTo(b) : b \in BetInputs}

WinnerInputs == {<<0>>, <<1, 0>>, <<2, 2, 7>>}

PotIndexInputs == {0, 1, 5}

\* the tables the runs start from: the initial state after the setup screen's two actions
SetupStates ==
  {reduceSetPlayers(reduceSetConfig(createInitialState, cfg), raw) : cfg \in ConfigInputs, raw \in PlayersInputs}

\* a hand may begin while fewer than MaxHands have
startsHand(next) == next.lastError = Null

leavesSetup(next) == state.phase = "setup" /\ next.phase # "setup"

InitHistory ==
  /\ hands = 0
  /\ handBase = -1
  /\ pureActs = -1
  /\ handStart = <<>>

Init ==
  /\ state \in SetupStates
  /\ probe = NoProbe
  /\ sync = NoSync
  /\ InitHistory

Next ==
  \/ (startsHand(reduceStartHand(state)) => hands < MaxHands) /\ StartHand
  \/ \E seat \in SeatInputs, action \in ActionInputs :
       /\ IF skipsRollbackPoint(state, seat) THEN TRUE ELSE Len(state.rollbackStack) < MaxUndo
       /\ PlayerAct(seat, action)
  \/ Rollback
  \/ (leavesSetup(reduceNextStreet(state)) => hands < MaxHands) /\ NextStreet
  \/ state.phase = "showdown" /\ \E potIndex \in PotIndexInputs, seats \in WinnerInputs : SetPotWinners(potIndex, seats)
  \/ SettleHand
  \/ CancelHand

Spec == Init /\ [][Next]_vars

(***************************************************************************)
(* SpecScenario: hands played to the end at the two tables of the worked   *)
(* scenarios, the initial heads-up table (200 and 200) and the three       *)
(* stacks 50, 100 and 200 in any seating, both with the default blinds.    *)
(***************************************************************************)
ScenarioStacks ==
  {<<50, 100, 200>>, <<50, 200, 100>>, <<100, 50, 200>>,
   <<100, 200, 50>>, <<200, 50, 100>>, <<200, 100, 50>>}

ScenarioStates ==
  {createInitialState} \cup {reduceSetPlayers(createInitialState, playersOf(stacks)) : stacks \in ScenarioStacks}

InitScenario ==
  /\ state \in ScenarioStates
  /\ probe = NoProbe
  /\ sync = NoSync
  /\ InitHistory

ScenarioActions == {Act("FOLD"), Act("CALL"), Act("ALLIN")}

NextScenario ==
  \/ (startsHand(reduceStartHand(state)) => hands < MaxHands) /\ StartHand
  \/ \E seat \in SeatInputs, action \in ScenarioActions :
       /\ IF skipsRollbackPoint(state, seat) THEN TRUE ELSE Len(state.rollbackStack) < MaxUndo
       /\ PlayerAct(seat, action)
  \/ state.phase = "showdown" /\ \E potIndex \in PotIndexInputs, seats \in WinnerInputs : SetPotWinners(potIndex, seats)
  \/ SettleHand

SpecScenario == InitScenario /\ [][NextScenario]_vars

(***************************************************************************)
(* SpecLong: one long heads-up hand.  The player in turn raises by one     *)
(* chip, folds, goes all-in or (before the flop) calls; only actions that  *)
(* applyPlayerAction accepts are offered, so that every rollback point     *)
(* belongs to an applied action.  The hand is long enough to fill the      *)
(* rollback stack beyond maxRollback.                                      *)
(***************************************************************************)
LongStack == 56

LongStates ==
  {reduceSetHole(reduceSetPlayers(createInitialState, playersOf(<<LongStack, LongStack>>)), 0, "AsKs")}

LongActions ==
  {BetTo(state.currentBet + 1), Act("FOLD"), Act("ALLIN")}
    \cup (IF state.street = "preflop" THEN {Act("CALL")} ELSE {})

BoardInputs == {"AhKhQh"}

InitLong ==
  /\ state \in LongStates
  /\ probe = NoProbe
  /\ sync = NoSync
  /\ InitHistory

NextLong ==
  \/ state.phase = "setup" /\ StartHand
  \/ \E action \in LongActions :
       /\ playerActError(normalizeAfterError(state), state.actionSeat, action) = Null
       /\ PlayerAct(state.actionSeat, action)
  \/ Rollback
  \/ (state.phase = "hand" /\ state.rollbackStack = <<>>) /\ \E text \in BoardInputs : SetBoard(text)

SpecLong == InitLong /\ [][NextLong]_vars

(***************************************************************************)
(* SpecRound: one hand of three players with six chips each, with the      *)
(* forced NEXT_STREET of the table view, ROLLBACK and CANCEL_HAND; the     *)
(* hand is never settled.                                                  *)
(***************************************************************************)
RoundStates == {reduceSetHole(reduceSetPlayers(createInitialState, playersOf(<<6, 6, 6>>)), 1, "QdQc")}

InitRound ==
  /\ state \in RoundStates
  /\ probe = NoProbe
  /\ sync = NoSync
  /\ InitHistory

NextRound ==
  \/ (state.phase = "setup" /\ hands < MaxHands) /\ StartHand
  \/ \E seat \in SeatInputs, action \in ActionInputs :
       /\ IF skipsRollbackPoint(state, seat) THEN TRUE ELSE Len(state.rollbackStack) < MaxUndo
       /\ PlayerAct(seat, action)
  \/ state.phase = "hand" /\ NextStreet
  \/ Rollback
  \/ CancelHand

SpecRound == InitRound /\ [][NextRound]_vars

(***************************************************************************)
(* SpecPhases: a heads-up table of four chips each where START_HAND,       *)
(* NEXT_STREET and SETTLE_HAND are dispatched in every phase, as the       *)
(* reducer accepts them, so that a hand can be started again while one is  *)
(* being played.                                                           *)
(***************************************************************************)
MaxStarts == 2

PhasesStates == {reduceSetPlayers(createInitialState, playersOf(<<4, 4>>))}

PhasesActions == {Act("FOLD"), Act("CHECK"), Act("CALL"), Act("ALLIN")}

InitPhases ==
  /\ state \in PhasesStates
  /\ probe = NoProbe
  /\ sync = NoSync
  /\ InitHistory

NextPhases ==
  \/ (startsHand(reduceStartHand(state)) => hands < MaxStarts) /\ StartHand
  \/ \E seat \in SeatInputs, action \in PhasesActions :
       /\ IF skipsRollbackPoint(state, seat) THEN TRUE ELSE Len(state.rollbackStack) < MaxUndo
       /\ PlayerAct(seat, action)
  \/ (leavesSetup(reduceNextStreet(state)) => hands < MaxStarts) /\ NextStreet
  \/ SettleHand
  \/ Rollback

SpecPhases == InitPhases /\ [][NextPhases]_vars

(***************************************************************************)
(* SpecHands: whole hands at the two heads-up tables of PlayersInputs with *)
(* the default blinds: started, played with FOLD, CHECK, CALL and ALLIN,   *)
(* undone, settled and cancelled.                                          *)
(***************************************************************************)
HandsStates == {reduceSetPlayers(createInitialState, raw) : raw \in PlayersInputs}

InitHands ==
  /\ state \in HandsStates
  /\ probe = NoProbe
  /\ sync = NoSync
  /\ InitHistory

NextHands ==
  \/ (startsHand(reduceStartHand(state)) => hands < MaxHands) /\ StartHand
  \/ \E seat \in SeatInputs, action \in PhasesActions :
       /\ IF skipsRollbackPoint(state, seat) THEN TRUE ELSE Len(state.rollbackStack) < MaxUndo
       /\ PlayerAct(seat, action)
  \/ Rollback
  \/ state.phase = "showdown" /\ \E potIndex \in PotIndexInputs, seats \in WinnerInputs : SetPotWinners(potIndex, seats)
  \/ SettleHand
  \/ CancelHand

SpecHands == InitHands /\ [][NextHands]_vars

(***************************************************************************)
(* SpecSession: sessions around the hands.  The tables hold three chips    *)
(* per funded player, one of them with a broke player between two funded   *)
(* ones and one with a single funded player.  A session is started and     *)
(* ended (SESSION_END carries the caller's timestamp), the rules are       *)
(* changed, and hands are started, played and settled in between.          *)
(***************************************************************************)
SessionStacks == {<<3, 3>>, <<3, 0, 3>>, <<0, 3>>}

SessionStates == {reduceSetPlayers(createInitialState, playersOf(stacks)) : stacks \in SessionStacks}

EndedAtInputs == {0, 9}

InitSession ==
  /\ state \in SessionStates
  /\ probe = NoProbe
  /\ sync = NoSync
  /\ InitHistory

NextSession ==
  \/ SessionStart("s1", 1)
  \/ \E endedAt \in EndedAtInputs : SessionEnd(endedAt)
  \/ \E cfg \in ConfigInputs : SetConfig(cfg)
  \/ (startsHand(reduceStartHand(state)) => hands < MaxStarts) /\ StartHand
  \/ \E seat \in SeatInputs, action \in PhasesActions :
       /\ IF skipsRollbackPoint(state, seat) THEN TRUE ELSE Len(state.rollbackStack) < MaxUndo
       /\ PlayerAct(seat, action)
  \/ SettleHand

SpecSession == InitSession /\ [][NextSession]_vars

(***************************************************************************)
(* SpecChips: everything that moves chips, from createInitialState.  The   *)
(* setup screen seats a table of 5, 2 and 4 chips or one of a broke player *)
(* (a negative stack is clamped to 0), 1 and 3 chips, with or without an   *)
(* ante; broke seats buy in (a negative amount is clamped to 0).  The      *)
(* player in turn takes any action the engine accepts, a bet to 9 being    *)
(* more than anybody holds at the small tables; the street is forced       *)
(* before the first undo point, hands are undone, settled and cancelled,   *)
(* and the session and the game are reset.                                 *)
(***************************************************************************)
RebuyBelow == 1

ChipsPlayers == {playersOf(<<5, 2, 4>>), playersOf(<<-1, 1, 3>>)}

ChipsActions == PhasesActions \cup {BetTo(9)}

RebuyInputs == {-2, 2}

InitChips ==
  /\ state = createInitialState
  /\ probe = NoProbe
  /\ sync = NoSync
  /\ InitHistory

NextChips ==
  \/ (state.phase = "setup" /\ hands < MaxHands) /\ \E raw \in ChipsPlayers : SetPlayers(raw)
  \/ (state.phase = "setup" /\ hands < MaxHands) /\ \E cfg \in ConfigInputs : SetConfig(cfg)
  \/ (state.phase = "setup" /\ hands < MaxHands) /\ StartHand
  \/ \E seat \in {state.actionSeat}, action \in ChipsActions :
       /\ state.phase = "hand"
       /\ playerActError(normalizeAfterError(state), seat, action) = Null
       /\ IF skipsRollbackPoint(state, seat) THEN TRUE ELSE Len(state.rollbackStack) < MaxUndo
       /\ PlayerAct(seat, action)
  \/ (state.phase = "hand" /\ state.rollbackStack = <<>>) /\ NextStreet
  \/ Rollback
  \/ state.phase = "showdown" /\ SettleHand
  \/ state.phase # "setup" /\ CancelHand
  \/ \E seat \in DOMAIN state.players, amount \in RebuyInputs :
       (state.phase = "setup" /\ state.players[seat].stack < RebuyBelow) /\ Rebuy(seat, amount)
  \/ state.phase = "setup" /\ SessionStart("s1", 1)
  \/ ResetSession
  \/ ResetGame

SpecChips == InitChips /\ [][NextChips]_vars

(***************************************************************************)
(* SpecShowdown: hands of three players holding 1, 2 and 3 chips, so that  *)
(* the pots have up to three levels.  The player in turn takes any action  *)
(* the engine accepts; at showdown winners are submitted for one pot or    *)
(* for all pots, naming any seats (folded players, repeated seats and      *)
(* seats that do not exist included); SETTLE_HAND is dispatched in any     *)
(* phase.                                                                  *)
(***************************************************************************)
ShowdownStates == {reduceSetPlayers(createInitialState, playersOf(<<1, 2, 3>>))}

AllWinnersInputs == {<<>>, <<<<0>>>>, <<<<2, 2, 7>>, <<0, 1>>>>, <<<<1, 0>>, <<2>>, <<0, 1, 2>>>>}

InitShowdown ==
  /\ state \in ShowdownStates
  /\ probe = NoProbe
  /\ sync = NoSync
  /\ InitHistory

NextShowdown ==
  \/ (state.phase = "setup" /\ hands < MaxHands) /\ StartHand
  \/ \E seat \in {state.actionSeat}, action \in PhasesActions :
       /\ playerActError(normalizeAfterError(state), seat, action) = Null
       /\ PlayerAct(seat, action)
  \/ state.phase = "showdown" /\ \E potIndex \in PotIndexInputs, seats \in WinnerInputs : SetPotWinners(potIndex, seats)
  \/ state.phase = "showdown" /\ \E potWinners \in AllWinnersInputs : SetPotWinnersAll(potWinners)
  \/ SettleHand

SpecShowdown == InitShowdown /\ [][NextShowdown]_vars

(***************************************************************************)
(* SpecPots: the pot engine called on its own.  A probe starts either from *)
(* a set of players (any mix of statuses and commitments) or from a single *)
(* given pot at a four-seat table; computeSidePots, the winners'           *)
(* normalisation with settleHand's validation, and distributePots are      *)
(* applied in the order settleHand applies them.                           *)
(***************************************************************************)
MaxCommit == 2

MaxAmount == 5

StatusInputs == {"active", "folded", "allin", "out"}

probePlayer(seat, status, committed) ==
  [newPlayer(seat, defaultName(seat), 0, status) EXCEPT !.totalCommitted = committed]

ProbePlayerSets ==
  {[i \in 0..2 |-> probePlayer(i, st[i], tc[i])] : st \in [0..2 -> StatusInputs], tc \in [0..2 -> 0..MaxCommit]}

FourSeats == [i \in 0..3 |-> probePlayer(i, "active", 0)]

AmountInputs == (0..MaxAmount) \cup {101}

SeatListInputs == {SortedSeq(S) : S \in SUBSET (0..3)}

PotInputs == {[amount |-> a, eligibleSeats |-> e] : a \in AmountInputs, e \in SeatListInputs}

PlayersWinnerInputs == {<<>>, <<0>>, <<1, 0>>, <<1, 2>>, <<0, 1, 2>>, <<2, 2, 7>>}

PotWinnerInputs == SeatListInputs \cup {<<1, 0>>, <<3, 1>>, <<2, 2, 7>>}

newProbe(source, ps, pots) ==
  [step |-> IF source = "players" THEN "players" ELSE "pots",
   source |-> source,
   players |-> ps,
   totalSeats |-> NumPlayers(ps),
   dealerSeat |-> 0,
   pots |-> pots,
   potWinners |-> <<>>,
   payouts |-> <<>>]

ProbeComputeSidePots ==
  /\ probe.step = "players"
  /\ probe' = [probe EXCEPT !.step = "pots", !.pots = computeSidePots(probe.players)]
  /\ UNCHANGED <<state, sync, hands, handBase, pureActs, handStart>>

\* settleHand's first half: normalise the chosen winners, refuse when one is missing
ProbeSetWinners(raw) ==
  /\ probe.step = "pots"
  /\ LET normalizedPotWinners == normalizePotWinnersForPots(probe.players, probe.pots, raw)
     IN probe' = [probe EXCEPT
                    !.step = IF missingWinner(probe.pots, normalizedPotWinners) THEN "refused" ELSE "winners",
                    !.potWinners = normalizedPotWinners]
  /\ UNCHANGED <<state, sync, hands, handBase, pureActs, handStart>>

ProbeDistributePots(dealerSeat) ==
  /\ probe.step = "winners"
  /\ probe' = [probe EXCEPT
                 !.step = "paid",
                 !.dealerSeat = dealerSeat,
                 !.payouts = distributePots(probe.pots, probe.potWinners, dealerSeat, probe.totalSeats)]
  /\ UNCHANGED <<state, sync, hands, handBase, pureActs, handStart>>

InitPots ==
  /\ state = createInitialState
  /\ probe \in {newProbe("players", ps, <<>>) : ps \in ProbePlayerSets}
                 \cup {newProbe("pot", FourSeats, <<pot>>) : pot \in PotInputs}
  /\ sync = NoSync
  /\ InitHistory

NextPots ==
  \/ ProbeComputeSidePots
  \/ \E raw \in [DOMAIN probe.pots -> IF probe.source = "players" THEN PlayersWinnerInputs ELSE PotWinnerInputs] :
       ProbeSetWinners(raw)
  \/ \E dealerSeat \in 0..(probe.totalSeats - 1) : ProbeDistributePots(dealerSeat)

SpecPots == InitPots /\ [][NextPots]_vars

(***************************************************************************)
(* Claims.                                                                 *)
(***************************************************************************)
\* C1: chip conservation within a hand.  After a successful START_HAND and
\* any sequence of PLAYER_ACT, ROLLBACK, NEXT_STREET, SET_POT_WINNERS,
\* SETTLE_HAND and CANCEL_HAND, the sum over all players of
\* stack + totalCommitted equals the sum of all stacks just before that
\* START_HAND.
C1_ChipConservation ==
  handBase >= 0 => SumStacks(state.players) + computePotSize(state.players) = handBase

\* the chips a payout map hands out to the seats below n
RECURSIVE totalPaid(_, _)
totalPaid(payoutMap, n) ==
  IF n = 0 THEN 0 ELSE payoutGet(payoutMap, n - 1) + totalPaid(payoutMap, n - 1)

potAmounts(pots) == SumSeq([idx \in DOMAIN pots |-> pots[idx].amount])

\* C2: pot partition.  For any set of players, the amounts of the pots
\* returned by computeSidePots sum to exactly the sum of all players'
\* totalCommitted.
C2_PotPartition ==
  (probe.step \in {"pots", "winners", "refused", "paid"} /\ probe.source = "players")
    => potAmounts(probe.pots) = committedUpTo(probe.players, NumPlayers(probe.players))

\* C2 witness: two pots were computed and a folded player paid into them
C2_Witness ==
  /\ probe.step = "pots"
  /\ probe.source = "players"
  /\ Len(probe.pots) = 2
  /\ \E i \in DOMAIN probe.players :
       probe.players[i].status = "folded" /\ probe.players[i].totalCommitted = MaxCommit
  /\ \E i \in DOMAIN probe.players :
       probe.players[i].status = "allin" /\ probe.players[i].totalCommitted = 1

\* C3: settlement conservation.  For the pots computed from any player set
\* and any winners that pass settleHand's validation, the payouts of
\* distributePots sum to exactly the sum of the pot amounts.
C3_SettlementConservation ==
  (probe.step = "paid" /\ probe.source = "players")
    => totalPaid(probe.payouts, probe.totalSeats) = potAmounts(probe.pots)

\* how many seats after the dealer's the seat s is reached, walking clockwise
stepsFromDealer(s, dealerSeat, totalSeats) == (s + totalSeats - dealerSeat - 1) % totalSeats

\* what the rule of C8 gives seat s from one pot won by the seats `winners`
ruleShare(pot, winners, dealerSeat, totalSeats, s) ==
  LET k == Cardinality(winners)
      floor == pot.amount \div k
      leftover == pot.amount % k
      before == Cardinality({w \in winners :
                  stepsFromDealer(w, dealerSeat, totalSeats) < stepsFromDealer(s, dealerSeat, totalSeats)})
  IN IF s \notin winners THEN 0
     ELSE IF before < leftover THEN floor + 1
     ELSE floor

RECURSIVE ruleTotal(_, _, _, _, _, _)
ruleTotal(pots, potWinners, dealerSeat, totalSeats, s, n) ==
  IF n = 0 THEN 0
  ELSE ruleShare(pots[n], Range(potWinners[n]), dealerSeat, totalSeats, s)
       + ruleTotal(pots, potWinners, dealerSeat, totalSeats, s, n - 1)

\* C8: remainder distribution.  For every pot with k >= 1 eligible winners,
\* distributePots pays each winner floor(amount / k), and the amount mod k
\* leftover chips go one each to the first winners met when walking the
\* seats clockwise from dealerSeat + 1; so when every pot has a winner, a
\* seat receives exactly the sum of these shares over the pots.  A pot of
\* 101 with 2 winners, dealer seat 0 and 4 seats pays 50 each and the extra
\* chip to the winner first reached from seat 1.
C8_RemainderDistribution ==
  (probe.step = "paid" /\ \A idx \in DOMAIN probe.pots : Len(probe.potWinners[idx]) >= 1)
    => /\ \A s \in 0..(probe.totalSeats - 1) :
            payoutGet(probe.payouts, s)
              = ruleTotal(probe.pots, probe.potWinners, probe.dealerSeat, probe.totalSeats, s, Len(probe.pots))
       /\ DOMAIN probe.payouts \subseteq 0..(probe.totalSeats - 1)
       /\ (/\ Len(probe.pots) = 1
           /\ probe.pots[1].amount = 101
           /\ Len(probe.potWinners[1]) = 2
           /\ probe.dealerSeat = 0
           /\ probe.totalSeats = 4)
            => LET winners == Range(probe.potWinners[1])
               IN \A s \in winners :
                    probe.payouts[s] = IF s = SetMin(winners \ {0}) THEN 51 ELSE 50

\* C8 witness: the pot of 101 was paid to the tied seats 0 and 2 with the
\* dealer at seat 0 of four seats: 51 to seat 2, 50 to seat 0
C8_Witness ==
  /\ probe.step = "paid"
  /\ probe.source = "pot"
  /\ probe.pots[1].amount = 101
  /\ Range(probe.potWinners[1]) = {0, 2}
  /\ probe.dealerSeat = 0
  /\ probe.totalSeats = 4
  /\ probe.payouts[2] = 51
  /\ probe.payouts[0] = 50

\* C4: every rejected action (a PLAYER_ACT, START_HAND or SETTLE_HAND that
\* ends with lastError set) returns a state equal to the input state in
\* every field except lastError; in particular players, currentBet,
\* actionSeat and rollbackStack are unchanged.
C4_RejectedActionsChangeOnlyError ==
  [][((\/ \E seat \in SeatInputs, action \in ActionInputs : PlayerAct(seat, action)
       \/ StartHand
       \/ SettleHand)
      /\ state'.lastError # Null)
       => state' = [state EXCEPT !.lastError = state'.lastError]]_vars

\* the player in turn, as PLAYER_ACT requires
inTurn(seat) ==
  /\ state.phase = "hand"
  /\ seat = state.actionSeat
  /\ seat \in DOMAIN state.players
  /\ state.players[seat].status = "active"

\* C5: a PLAYER_ACT changes chips, statuses or the action seat only when
\* phase = hand, the seat is actionSeat and that player is active; CHECK is
\* accepted only when currentBet does not exceed the actor's streetBet; an
\* accepted CALL moves exactly min(currentBet - streetBet, stack) chips from
\* the actor's stack to totalCommitted and (while the street lasts) streetBet.
C5_PlayerActLegality ==
  [][\A seat \in SeatInputs, action \in ActionInputs :
       PlayerAct(seat, action) =>
         /\ (\/ state'.actionSeat # state.actionSeat
             \/ \E i \in DOMAIN state.players :
                  \/ state'.players[i].stack # state.players[i].stack
                  \/ state'.players[i].streetBet # state.players[i].streetBet
                  \/ state'.players[i].totalCommitted # state.players[i].totalCommitted
                  \/ state'.players[i].status # state.players[i].status)
              => inTurn(seat)
         /\ (action.type = "CHECK" /\ state'.lastError = Null)
              => (inTurn(seat) /\ state.currentBet <= state.players[seat].streetBet)
         /\ (action.type = "CALL" /\ state'.lastError = Null)
              => /\ inTurn(seat)
                 /\ LET actor == state.players[seat]
                        moved == Min2(state.currentBet - actor.streetBet, actor.stack)
                    IN /\ state'.players[seat].stack = actor.stack - moved
                       /\ state'.players[seat].totalCommitted = actor.totalCommitted + moved
                       /\ (state'.phase = "hand" /\ state'.street = state.street)
                            => state'.players[seat].streetBet = actor.streetBet + moved]_vars

\* a pot with more than one eligible seat has no assigned winner among them
lacksWinner(ps, potWinners) ==
  LET pots == computeSidePots(ps)
  IN \E idx \in DOMAIN pots :
       /\ Len(pots[idx].eligibleSeats) > 1
       /\ Range(winnersAt(potWinners, idx)) \cap Range(pots[idx].eligibleSeats) = {}

\* C9: SETTLE_HAND at showdown is all-or-nothing.  If a pot with more than
\* one eligible seat has no valid assigned winner, no stack changes, phase
\* stays showdown, potWinners and dealerSeat are unchanged and lastError is
\* set; otherwise every pot is paid in the same step (the stacks grow by the
\* pots' amounts, nothing stays committed) and phase becomes setup.
C9_SettleAllOrNothing ==
  [][(SettleHand /\ state.phase = "showdown") =>
       IF lacksWinner(state.players, state.potWinners)
       THEN /\ \A i \in DOMAIN state.players : state'.players[i].stack = state.players[i].stack
            /\ state'.phase = "showdown"
            /\ state'.potWinners = state.potWinners
            /\ state'.dealerSeat = state.dealerSeat
            /\ state'.lastError # Null
       ELSE /\ state'.phase = "setup"
            /\ SumStacks(state'.players) = SumStacks(state.players) + potAmounts(computeSidePots(state.players))
            /\ computePotSize(state'.players) = 0]_vars

\* C6: heads-up blinds.  With blinds 1/2, no ante and two players holding
\* 200 each, right after START_HAND the dealer seat is the small blind with
\* stack 199, the other player is the big blind with stack 198,
\* currentBet = 2, and the action is on the dealer (the small blind).
C6_HeadsUpBlinds ==
  (/\ pureActs = 0
   /\ NumPlayers(state.players) = 2
   /\ state.config = [smallBlind |-> 1, bigBlind |-> 2, ante |-> 0]
   /\ \A i \in DOMAIN state.players : state.players[i].stack + state.players[i].totalCommitted = 200)
    => /\ state.players[state.dealerSeat].stack = 199
       /\ state.players[state.dealerSeat].totalCommitted = 1
       /\ state.players[1 - state.dealerSeat].stack = 198
       /\ state.players[1 - state.dealerSeat].totalCommitted = 2
       /\ state.currentBet = 2
       /\ state.actionSeat = state.dealerSeat

\* the three stacks 50, 100 and 200 are all-in before the flop was dealt
allInPreflop ==
  /\ NumPlayers(state.players) = 3
  /\ state.phase = "showdown"
  /\ state.street = "preflop"
  /\ \A i \in DOMAIN state.players :
       state.players[i].status = "allin" /\ state.players[i].stack = 0
  /\ {state.players[i].totalCommitted : i \in DOMAIN state.players} = {50, 100, 200}

\* the amounts of the side pots, the number of eligible seats per pot, and
\* the last pot assigned to its only eligible seat
sidePotsAre(amounts) ==
  LET pots == computeSidePots(state.players)
  IN /\ [idx \in DOMAIN pots |-> pots[idx].amount] = amounts
     /\ [idx \in DOMAIN pots |-> Len(pots[idx].eligibleSeats)] = <<3, 2, 1>>
     /\ Len(state.potWinners) = 3
     /\ state.potWinners[3] = pots[3].eligibleSeats
     /\ state.players[pots[3].eligibleSeats[1]].totalCommitted = 200

\* C7 as stated: when three players with stacks 50, 100 and 200 all go
\* all-in preflop, computeSidePots yields three pots of 150 (all three
\* eligible), 100 (two eligible) and 50 (one eligible, auto-assigned).
C7_AllInSidePots_Original == allInPreflop => sidePotsAre(<<150, 100, 50>>)

\* C7 amended: when three players with stacks 50, 100 and 200 all go all-in
\* preflop, computeSidePots yields three pots of 150 (all three eligible),
\* 100 (two eligible) and 100 (one eligible, auto-assigned to that seat).
C7_AllInSidePots == allInPreflop => sidePotsAre(<<150, 100, 100>>)

\* C7 witness: the three all-ins were the hand's only actions
C7_Witness == allInPreflop /\ pureActs = 3 /\ state.dealerSeat = 0 /\ state.players[2].totalCommitted = 200

\* equality in the fields a rollback point captures, and in rollbackStack
sameCaptured(a, b, stack) ==
  /\ a.phase = b.phase
  /\ a.street = b.street
  /\ a.currentBet = b.currentBet
  /\ a.actionSeat = b.actionSeat
  /\ a.dealerSeat = b.dealerSeat
  /\ a.boardCardsText = b.boardCardsText
  /\ a.potWinners = b.potWinners
  /\ a.rollbackStack = stack
  /\ DOMAIN a.players = DOMAIN b.players
  /\ \A i \in DOMAIN b.players :
       /\ a.players[i].stack = b.players[i].stack
       /\ a.players[i].streetBet = b.players[i].streetBet
       /\ a.players[i].totalCommitted = b.players[i].totalCommitted
       /\ a.players[i].status = b.players[i].status
       /\ a.players[i].acted = b.players[i].acted
       /\ a.players[i].holeCardsText = b.players[i].holeCardsText

\* n ROLLBACKs in a row
RECURSIVE rollbackTimes(_, _)
rollbackTimes(s, n) == IF n = 0 THEN s ELSE rollbackTimes(reduceRollback(s), n - 1)

\* a step that applies an accepted PLAYER_ACT to a hand state
acceptedAct ==
  /\ state.phase = "hand"
  /\ state'.lastError = Null
  /\ \E action \in LongActions : PlayerAct(state.actionSeat, action)

\* n <= 50 accepted PLAYER_ACTs followed by n ROLLBACKs restore the state
\* right after START_HAND
undoneToStart ==
  (pureActs >= 0 /\ pureActs <= maxRollback)
    => sameCaptured(rollbackTimes(state, pureActs), handStart[1], handStart[1].rollbackStack)

\* C10 as stated: an accepted PLAYER_ACT applied to a hand state S and then
\* ROLLBACK yields a state equal to S in phase, street, currentBet,
\* actionSeat, dealerSeat, boardCardsText, potWinners, rollbackStack and
\* every player's stack, streetBet, totalCommitted, status, acted and
\* holeCardsText; and n <= 50 accepted PLAYER_ACTs followed by n ROLLBACKs
\* restore the state right after START_HAND.
C10_RollbackRoundTrip_Original ==
  /\ [][acceptedAct => sameCaptured(reduceRollback(state'), state, state.rollbackStack)]_vars
  /\ []undoneToStart

\* C10 amended: the round trip of one accepted PLAYER_ACT and ROLLBACK
\* restores all those fields of S provided S's rollbackStack holds fewer
\* than 50 entries; when it holds 50, the other fields are restored and
\* rollbackStack comes back without its oldest entry.  n <= 50 accepted
\* PLAYER_ACTs followed by n ROLLBACKs restore the state right after
\* START_HAND, also when the last action ended the street or the betting.
C10_RollbackRoundTrip ==
  /\ [][acceptedAct =>
          sameCaptured(reduceRollback(state'), state,
                       IF Len(state.rollbackStack) < maxRollback
                       THEN state.rollbackStack
                       ELSE Tail(state.rollbackStack))]_vars
  /\ []undoneToStart

\* C10 witness: fifty accepted actions since START_HAND, the last of which
\* ended the betting, with a full rollback stack
C10_Witness ==
  /\ pureActs = maxRollback
  /\ Len(state.rollbackStack) = maxRollback
  /\ state.phase = "showdown"

\* the rollback point `point` holds the captured fields of the state s
capturedIn(point, s) ==
  /\ point.phase = s.phase
  /\ point.street = s.street
  /\ point.currentBet = s.currentBet
  /\ point.actionSeat = s.actionSeat
  /\ point.dealerSeat = s.dealerSeat
  /\ point.boardCardsText = s.boardCardsText
  /\ point.potWinners = s.potWinners
  /\ DOMAIN point.players = DOMAIN s.players
  /\ \A i \in DOMAIN s.players :
       /\ point.players[i].seat = s.players[i].seat
       /\ point.players[i].stack = s.players[i].stack
       /\ point.players[i].streetBet = s.players[i].streetBet
       /\ point.players[i].totalCommitted = s.players[i].totalCommitted
       /\ point.players[i].status = s.players[i].status
       /\ point.players[i].acted = s.players[i].acted
       /\ point.players[i].holeCardsText = s.players[i].holeCardsText

\* C11: the rollback stack never holds more than 50 entries; a PLAYER_ACT
\* of the player in turn appends the snapshot of the state it was applied
\* to, and when that would make 51 entries the oldest one is discarded, so
\* the stack holds the most recent (up to 50) pre-action snapshots in order.
C11_RollbackStackBounded ==
  /\ [](Len(state.rollbackStack) <= maxRollback)
  /\ [][acceptedAct =>
          LET old == state.rollbackStack
              new == state'.rollbackStack
              dropped == IF Len(old) = maxRollback THEN 1 ELSE 0
          IN /\ Len(new) = Len(old) + 1 - dropped
             /\ capturedIn(new[Len(new)], state)
             /\ \A i \in 1..(Len(new) - 1) : new[i] = old[i + dropped]]_vars

\* C11 witness: more than 50 actions were applied and the stack is full
C11_Witness ==
  /\ pureActs > maxRollback
  /\ Len(state.rollbackStack) = maxRollback
  /\ state.phase = "hand"

\* C12: the rollback stack is scoped to one hand.  It is empty right after
\* a successful START_HAND, a successful SETTLE_HAND and a CANCEL_HAND, it is
\* empty whenever the table is in setup, and every point it holds was taken
\* under the current dealer, so ROLLBACK never restores a state of a previous
\* hand nor crosses a settlement; ROLLBACK with an empty stack leaves every
\* field other than lastError unchanged.
C12_RollbackScopedToHand ==
  /\ [][((StartHand \/ SettleHand) /\ state'.lastError = Null)
          => state'.rollbackStack = <<>>]_vars
  /\ [][CancelHand => state'.rollbackStack = <<>>]_vars
  /\ [](state.phase = "setup" => state.rollbackStack = <<>>)
  /\ [](\A i \in DOMAIN state.rollbackStack :
          /\ state.rollbackStack[i].dealerSeat = state.dealerSeat
          /\ state.rollbackStack[i].phase = "hand")
  /\ [][(Rollback /\ state.rollbackStack = <<>>)
          => state' = [state EXCEPT !.lastError = state'.lastError]]_vars

\* C12 witness: a hand with rollback points was settled (seat 0 holds all
\* seven chips) and the stack is empty
C12_Witness ==
  /\ state.phase = "setup"
  /\ handBase = 7
  /\ state.players[0].stack = 7
  /\ state.rollbackStack = <<>>

\* the players of s that are neither folded nor out
survivors(s) == {i \in DOMAIN s.players : s.players[i].status \notin {"folded", "out"}}

\* C13: fold-out.  Whenever an applied PLAYER_ACT leaves at most one player
\* who is neither folded nor out, the hand is in showdown, potWinners names
\* that survivor as the winner of every pot of computeSidePots, and a
\* SETTLE_HAND that follows pays the whole pot to the survivor.
C13_FoldOut ==
  [][\A seat \in SeatInputs, action \in ActionInputs :
       (/\ PlayerAct(seat, action)
        /\ state.phase = "hand"
        /\ state'.lastError = Null
        /\ Cardinality(survivors(state')) <= 1)
         => /\ state'.phase = "showdown"
            /\ \A w \in survivors(state') :
                 LET pots == computeSidePots(state'.players)
                     settled == reduceSettleHand(state')
                 IN /\ DOMAIN state'.potWinners = DOMAIN pots
                    /\ \A idx \in DOMAIN pots : state'.potWinners[idx] = <<state'.players[w].seat>>
                    /\ settled.players[w].stack
                         = state'.players[w].stack + computePotSize(state'.players)]_vars

\* C14: a BET_TO of the player in turn whose target is below minRaiseTo and
\* below the actor's maximum streetBet + stack is rejected with an error and
\* no state change; an accepted BET_TO never takes more than the actor's
\* stack (the new streetBet is at most the old streetBet + stack).
C14_BetToMinimumRaise ==
  [][\A seat \in SeatInputs, b \in BetInputs :
       (PlayerAct(seat, BetTo(b)) /\ inTurn(seat)) =>
         LET actor == state.players[seat]
             maxBetTo == actor.streetBet + actor.stack
         IN /\ (b < minRaiseTo(state) /\ b < maxBetTo)
                 => /\ state'.lastError # Null
                    /\ state' = [state EXCEPT !.lastError = state'.lastError]
            /\ state'.lastError = Null
                 => /\ state'.players[seat].stack >= 0
                    /\ state'.players[seat].totalCommitted <= actor.totalCommitted + actor.stack
                    /\ state'.players[seat].streetBet <= maxBetTo]_vars

\* the active players other than `seat` that have not acted since the last
\* bet or raise (acted = FALSE is how the table records that a player still
\* has to respond)
pendingOthers(s, seat) ==
  {i \in DOMAIN s.players : i # seat /\ s.players[i].status = "active" /\ ~s.players[i].acted}

\* the street stays and the hand stays in the betting, unless it is folded out
noAdvance ==
  /\ state'.street = state.street
  /\ state'.phase = "hand" \/ countRemaining(state'.players) <= 1

\* an accepted ALLIN or BET_TO of the player in turn that puts the actor's
\* street bet above currentBet while another player is active reopens the
\* round: currentBet becomes the actor's streetBet, every other active
\* player has acted = FALSE, and street and phase stay
raiseReopens ==
  \A seat \in {state.actionSeat}, action \in ActionInputs :
    (/\ inTurn(seat)
     /\ state'.lastError = Null
     /\ action.type \in {"ALLIN", "BET_TO"}
     /\ state.players[seat].streetBet + (state.players[seat].stack - state'.players[seat].stack)
          > state.currentBet
     /\ \E i \in DOMAIN state.players : i # seat /\ state.players[i].status = "active"
     /\ PlayerAct(seat, action))
      => /\ state'.phase = "hand"
         /\ state'.street = state.street
         /\ state'.currentBet = state'.players[seat].streetBet
         /\ state'.currentBet > state.currentBet
         /\ \A i \in DOMAIN state.players :
              (i # seat /\ state'.players[i].status = "active") => ~state'.players[i].acted

\* while another active player has not acted, an accepted PLAYER_ACT neither
\* advances the street nor marks that player as having acted
actWaitsForPending ==
  \A seat \in {state.actionSeat}, action \in ActionInputs :
    (/\ inTurn(seat)
     /\ state'.lastError = Null
     /\ pendingOthers(state, seat) # {}
     /\ PlayerAct(seat, action))
      => /\ noAdvance
         /\ state'.phase = "hand" => pendingOthers(state, seat) \subseteq pendingOthers(state', seat)

\* currentBet stands above the forced bets of the street: somebody bet or raised
raiseStanding ==
  state.currentBet > (IF state.street = "preflop" THEN state.config.bigBlind ELSE 0)

\* C15 as stated: a raise reopens the round, and the street does not
\* advance by any action until each of the other active players has acted
\* again or is no longer active.
C15_RaiseReopensRound_Original ==
  [][/\ raiseReopens
     /\ actWaitsForPending
     /\ (NextStreet /\ state.phase = "hand" /\ raiseStanding /\ pendingOthers(state, -1) # {}) => noAdvance]_vars

\* C15 amended: a raise reopens the round (currentBet equals the actor's
\* streetBet, every other active player has acted = FALSE), and no
\* PLAYER_ACT advances the street or ends the betting by round completion
\* until each of those players has acted again or is no longer active; a
\* NEXT_STREET forces the street forward regardless.
C15_RaiseReopensRound ==
  [][/\ raiseReopens
     /\ actWaitsForPending
     /\ (NextStreet /\ state.phase = "hand" /\ countRemaining(state.players) > 1
           /\ \E i \in DOMAIN state.players : state.players[i].status = "active")
          => state'.street # state.street \/ state'.phase = "showdown"]_vars

\* C15 witness: seat 0 raised all-in to 6 as the hand's first action; the
\* blinds are active, have not acted, and the hand is still before the flop
C15_Witness ==
  /\ NumPlayers(state.players) = 3
  /\ pureActs = 1
  /\ state.phase = "hand"
  /\ state.street = "preflop"
  /\ state.currentBet = 6
  /\ state.players[0].status = "allin"
  /\ pendingOthers(state, 0) = {1, 2}

\* C16: CANCEL_HAND voids the hand.  Applied in phase hand or showdown after
\* any sequence of PLAYER_ACT and ROLLBACK since START_HAND, it returns every
\* player's stack to its value right before that START_HAND (the stack plus
\* the forced bets of the state right after it), zeroes streetBet and
\* totalCommitted, clears hole cards and board, empties the rollback stack,
\* keeps dealerSeat and sets phase = setup.
C16_CancelHandVoids ==
  [][(CancelHand /\ state.phase \in {"hand", "showdown"} /\ handStart # <<>>)
       => /\ state'.phase = "setup"
          /\ state'.dealerSeat = state.dealerSeat
          /\ state'.boardCardsText = ""
          /\ state'.rollbackStack = <<>>
          /\ DOMAIN state'.players = DOMAIN state.players
          /\ \A i \in DOMAIN state.players :
               /\ state'.players[i].stack
                    = handStart[1].players[i].stack + handStart[1].players[i].totalCommitted
               /\ state'.players[i].streetBet = 0
               /\ state'.players[i].totalCommitted = 0
               /\ state'.players[i].holeCardsText = ""]_vars

\* C16 witness: the hand was cancelled after chips had moved and a rollback
\* point existed; every stack is back at six and the hole cards are gone
C16_Witness ==
  /\ NumPlayers(state.players) = 3
  /\ state.phase = "setup"
  /\ hands = 1
  /\ handBase = 18
  /\ \A i \in DOMAIN state.players : state.players[i].stack = 6 /\ state.players[i].holeCardsText = ""

\* the place of a street in the order preflop, flop, turn, river
streetIndex(street) ==
  IF street = "preflop" THEN 0
  ELSE IF street = "flop" THEN 1
  ELSE IF street = "turn" THEN 2
  ELSE 3

\* C17: streets are monotonic within a hand.  Between a START_HAND and the
\* next return to setup, any action other than ROLLBACK leaves street
\* unchanged or advances it by exactly one step in the order preflop, flop,
\* turn, river.
C17_StreetsMonotonic ==
  [][(/\ handBase >= 0
      /\ state.phase \in {"hand", "showdown"}
      /\ state'.phase \in {"hand", "showdown"}
      /\ ~Rollback)
       => \/ streetIndex(state'.street) = streetIndex(state.street)
          \/ streetIndex(state'.street) = streetIndex(state.street) + 1]_vars

\* C18: phase transitions follow only the specified edges.  The phase goes
\* from setup to hand only by a successful START_HAND, from hand to showdown
\* only when the betting is over (fold-out, nobody left to act, or the
\* river), and from showdown back to hand only by ROLLBACK; no other action,
\* NEXT_STREET in setup or showdown included, moves the phase to hand.
C18_PhaseEdges ==
  [][/\ (state.phase = "setup" /\ state'.phase = "hand")
          => (StartHand /\ state'.lastError = Null)
     /\ (state.phase = "setup" /\ state'.phase = "showdown") => FALSE
     /\ (state.phase = "hand" /\ state'.phase = "showdown")
          => \/ countRemaining(state'.players) <= 1
             \/ \A i \in DOMAIN state'.players : state'.players[i].status # "active"
             \/ state.street = "river"
     /\ (state.phase = "showdown" /\ state'.phase = "hand") => Rollback]_vars

\* C19: START_HAND starts a hand only from phase setup.  Applied while phase
\* is hand or showdown it does not discard the chips already committed: the
\* seats stay as they are and every player's stack + totalCommitted is
\* preserved.
C19_StartHandOnlyFromSetup ==
  [][(StartHand /\ state.phase \in {"hand", "showdown"})
       => /\ DOMAIN state'.players = DOMAIN state.players
          /\ \A i \in DOMAIN state.players :
               state'.players[i].stack + state'.players[i].totalCommitted
                 = state.players[i].stack + state.players[i].totalCommitted]_vars

\* C20: SETTLE_HAND takes effect only in phase showdown.  Applied while phase
\* is setup or hand it does not advance dealerSeat and does not change phase
\* or any player's stack, totalCommitted or status.
C20_SettleOnlyInShowdown ==
  [][(SettleHand /\ state.phase \in {"setup", "hand"})
       => /\ state'.dealerSeat = state.dealerSeat
          /\ state'.phase = state.phase
          /\ DOMAIN state'.players = DOMAIN state.players
          /\ \A i \in DOMAIN state.players :
               /\ state'.players[i].stack = state.players[i].stack
               /\ state'.players[i].totalCommitted = state.players[i].totalCommitted
               /\ state'.players[i].status = state.players[i].status]_vars

\* C21: START_HAND preconditions.  When the session has been ended by
\* SESSION_END (whatever its endedAt), or fewer than two players have
\* stack > 0, START_HAND fails: lastError is set and nothing else changes,
\* so the phase stays and no blind or ante is posted.  Otherwise every player
\* with stack <= 0 is out and has posted nothing, and every other player
\* takes part in the hand.
C21_StartHandPreconditions ==
  [][StartHand =>
       LET funded == {i \in DOMAIN state.players : state.players[i].stack > 0}
           ended == state.session # NoSession /\ state.session[1].endedAt # <<>>
       IN IF ended \/ Cardinality(funded) < 2
          THEN /\ state'.lastError # Null
               /\ state' = [state EXCEPT !.lastError = state'.lastError]
          ELSE /\ state'.lastError = Null
               /\ state'.phase = "hand"
               /\ \A i \in DOMAIN state.players :
                    IF i \in funded
                    THEN state'.players[i].status \in {"active", "allin"}
                    ELSE /\ state'.players[i].status = "out"
                         /\ state'.players[i].totalCommitted = 0]_vars

\* C22: the table stakes are immutable during play.  While the phase is hand
\* or showdown, or while a session has been started and not ended, no action
\* changes config.
C22_StakesImmutable ==
  [][(\/ state.phase \in {"hand", "showdown"}
      \/ state.session # NoSession /\ state.session[1].endedAt = <<>>)
       => state'.config = state.config]_vars

\* what the step made player i pay
paidBy(i) == state'.players[i].totalCommitted - state.players[i].totalCommitted

\* C23: chips are never negative and nobody pays more than they hold.  In
\* every state reached from createInitialState every player has stack >= 0
\* and 0 <= streetBet <= totalCommitted; the forced bets of START_HAND and
\* the payment of an accepted PLAYER_ACT (CALL, ALLIN, BET_TO) take at most
\* the payer's stack, and a player whose stack reaches 0 by paying has
\* status allin.
C23_StackBounds ==
  /\ [](\A i \in DOMAIN state.players :
          /\ state.players[i].stack >= 0
          /\ state.players[i].streetBet >= 0
          /\ state.players[i].streetBet <= state.players[i].totalCommitted)
  /\ [][(state'.phase = "hand" /\ state'.lastError = Null /\ StartHand)
          => \A i \in DOMAIN state.players :
               /\ state'.players[i].totalCommitted >= 0
               /\ state'.players[i].totalCommitted <= state.players[i].stack
               /\ state'.players[i].stack = state.players[i].stack - state'.players[i].totalCommitted
               /\ (state.players[i].stack > 0 /\ state'.players[i].stack = 0)
                    => state'.players[i].status = "allin"]_vars
  /\ [][\A seat \in {state.actionSeat}, action \in ChipsActions :
          (/\ state.phase = "hand"
           /\ state'.lastError = Null
           /\ \E i \in DOMAIN state.players : paidBy(i) # 0
           /\ PlayerAct(seat, action))
            => \A i \in DOMAIN state.players :
                 /\ paidBy(i) >= 0
                 /\ paidBy(i) <= state.players[i].stack
                 /\ state'.players[i].stack = state.players[i].stack - paidBy(i)
                 /\ (paidBy(i) > 0 /\ state'.players[i].stack = 0)
                      => state'.players[i].status = "allin"]_vars

\* C23 witness: the small blind of the 5-2-4 table called an all-in of 5
\* with the single chip left: 2 chips committed, stack 0, all-in
C23_Witness ==
  /\ state.phase \in {"hand", "showdown"}
  /\ pureActs = 2
  /\ state.currentBet = 5
  /\ \E i \in DOMAIN state.players :
       /\ state.players[i].status = "allin"
       /\ state.players[i].stack = 0
       /\ state.players[i].totalCommitted = 2

\* the levels of a player set: the distinct positive commitments, ascending
levelsOf(ps) == SortedSeq({ps[i].totalCommitted : i \in {j \in DOMAIN ps : ps[j].totalCommitted > 0}})

\* the seats that committed at least `level` and are neither folded nor out
contendersAt(ps, level) ==
  {ps[i].seat : i \in {j \in DOMAIN ps : ps[j].totalCommitted >= level /\ ps[j].status \notin {"folded", "out"}}}

\* C24: side-pot eligibility.  For any player set, computeSidePots returns
\* one pot per level; every pot has amount > 0, its eligibleSeats are exactly
\* the players who committed at least the pot's level and are neither folded
\* nor out (each seat once), and the eligible seats of pot i+1 are a subset
\* of those of pot i.
C24_SidePotEligibility ==
  (probe.step # "none" /\ probe.source = "players" /\ probe.step # "players")
    => LET ps == probe.players
           pots == probe.pots
           levels == levelsOf(ps)
       IN /\ Len(pots) = Len(levels)
          /\ \A k \in DOMAIN pots :
               /\ pots[k].amount > 0
               /\ Range(pots[k].eligibleSeats) = contendersAt(ps, levels[k])
               /\ Len(pots[k].eligibleSeats) = Cardinality(Range(pots[k].eligibleSeats))
               /\ (k + 1) \in DOMAIN pots
                    => Range(pots[k + 1].eligibleSeats) \subseteq Range(pots[k].eligibleSeats)

\* C24 witness: two pots were computed, the second open to fewer seats than
\* the first, while a folded player contributed to both
C24_Witness ==
  /\ probe.step = "pots"
  /\ probe.source = "players"
  /\ Len(probe.pots) = 2
  /\ probe.pots[1].eligibleSeats = <<0, 1>>
  /\ probe.pots[2].eligibleSeats = <<1>>
  /\ probe.players[2].status = "folded"
  /\ probe.players[2].totalCommitted = 2

\* what a player who committed c can win at most: min(c, totalCommitted) of
\* every player
RECURSIVE coveredUpTo(_, _, _)
coveredUpTo(ps, c, n) == IF n = 0 THEN 0 ELSE Min2(c, ps[n - 1].totalCommitted) + coveredUpTo(ps, c, n - 1)

\* the chips of the pots that are open to `seat` alone
RECURSIVE ownPotsUpTo(_, _, _)
ownPotsUpTo(pots, seat, n) ==
  IF n = 0 THEN 0
  ELSE (IF pots[n].eligibleSeats = <<seat>> THEN pots[n].amount ELSE 0) + ownPotsUpTo(pots, seat, n - 1)

\* C25: payouts respect eligibility.  Whatever seats were submitted through
\* SET_POT_WINNERS and SET_POT_WINNERS_ALL, a SETTLE_HAND that settles never
\* increases the stack of a folded or out player, pays a player who
\* committed c chips at most the sum over all players j of
\* min(c, totalCommitted of j), and pays every pot with exactly one eligible
\* seat to that seat.
C25_PayoutsRespectEligibility ==
  [][(state'.lastError = Null /\ SettleHand)
       => LET ps == state.players
              pots == computeSidePots(ps)
          IN \A i \in DOMAIN ps :
               LET gain == state'.players[i].stack - ps[i].stack
               IN /\ ps[i].status \in {"folded", "out"} => gain <= 0
                  /\ gain <= coveredUpTo(ps, ps[i].totalCommitted, NumPlayers(ps))
                  /\ gain >= ownPotsUpTo(pots, ps[i].seat, Len(pots))]_vars

\* C25 witness: a hand of the 1-2-3 table was settled; seat 0 lost its
\* all-in chip, seat 1 folded after committing one chip and keeps the one it
\* has left, and seat 2 collected the four chips of the hand
C25_Witness ==
  /\ state.phase = "setup"
  /\ hands = 1
  /\ handBase = 6
  /\ state.players[0].stack = 0
  /\ state.players[1].stack = 1
  /\ state.players[2].stack = 5

\* ---------------------------------------------------------------------
\* The /sync layer: the server of vite.config.ts and the clients of
\* useGameSync.ts.  Every client runs the reducer on its own React state;
\* the server keeps the last snapshot it was sent and broadcasts it.  A
\* connection is a pair of first-in first-out queues: up (client to server)
\* and down (server to client).  A value that may be null is a sequence of
\* at most one element.
\* ---------------------------------------------------------------------

Clients == {1, 2}

\* how many actions the clients dispatch in all
MaxDispatch == 2

\* the message JSON.stringify({ type: 'snapshot', snapshot }) carries
snapshotMsg(snapshot) == [type |-> "snapshot", snapshot |-> snapshot]

\* the actions the clients dispatch
SyncActions ==
  {[type |-> "SETUP_SET_PLAYERS", players |-> playersOf(<<2, 5>>)],
   [type |-> "START_HAND"],
   [type |-> "PLAYER_ACT", seat |-> 0, action |-> Act("CALL")],
   [type |-> "PLAYER_ACT", seat |-> 1, action |-> Act("FOLD")]}

\* a client before its effect has connected it
newClient ==
  [readyState |-> "CLOSED",
   accepted |-> FALSE,
   state |-> createInitialState,
   stateRef |-> createInitialState,
   pendingSnapshotRef |-> <<>>,
   up |-> <<>>,
   down |-> <<>>]

\* variant: the server greets a new connection with nothing
onConnection_silent(latestSnapshot) == <<>>

\* what the server sends on a new connection
onConnection(latestSnapshot) ==
  IF latestSnapshot = <<>> THEN <<>> ELSE <<snapshotMsg(latestSnapshot[1])>>

\* connect(): a new WebSocket, unless one is open or connecting
connect(c) ==
  /\ sync.clients[c].readyState = "CLOSED"
  /\ sync' = [sync EXCEPT !.clients[c].readyState = "CONNECTING"]
  /\ UNCHANGED <<state, probe, hands, handBase, pureActs, handStart>>

\* wss.on('connection'): the server sends the latest snapshot, if it has one
serverConnection(c) ==
  /\ sync.clients[c].readyState = "CONNECTING"
  /\ ~sync.clients[c].accepted
  /\ sync' = [sync EXCEPT
                !.clients[c].accepted = TRUE,
                !.clients[c].down = @ \o onConnection(sync.latestSnapshot)]
  /\ UNCHANGED <<state, probe, hands, handBase, pureActs, handStart>>

\* the client's 'open' handler: a pending snapshot is sent
clientOpen(c) ==
  LET cl == sync.clients[c]
  IN /\ cl.readyState = "CONNECTING"
     /\ cl.accepted
     /\ sync' = [sync EXCEPT
                   !.clients[c].readyState = "OPEN",
                   !.clients[c].pendingSnapshotRef = <<>>,
                   !.clients[c].up =
                     IF cl.pendingSnapshotRef = <<>> THEN @
                     ELSE Append(@, snapshotMsg(cl.pendingSnapshotRef[1]))]
     /\ UNCHANGED <<state, probe, hands, handBase, pureActs, handStart>>

\* dispatchWithSync(action)
dispatchWithSync(c, action) ==
  LET cl == sync.clients[c]
      next == reducer(cl.stateRef, action)
  IN /\ sync.dispatched < MaxDispatch
     /\ sync' = [sync EXCEPT
                   !.dispatched = @ + 1,
                   !.clients[c].stateRef = next,
                   !.clients[c].state = reducer(@, action),
                   !.clients[c].up = IF cl.readyState = "OPEN" THEN Append(@, snapshotMsg(next)) ELSE @,
                   !.clients[c].pendingSnapshotRef = IF cl.readyState = "OPEN" THEN @ ELSE <<next>>]
     /\ UNCHANGED <<state, probe, hands, handBase, pureActs, handStart>>

\* the server's 'message' handler: the snapshot becomes the latest one and
\* goes to every open connection, the sender's included
serverMessage(c) ==
  LET cl == sync.clients[c]
      msg == Head(cl.up)
  IN /\ cl.accepted
     /\ cl.up # <<>>
     /\ msg.type = "snapshot"
     /\ sync' = [sync EXCEPT
                   !.latestSnapshot = <<msg.snapshot>>,
                   !.clients = [d \in Clients |->
                                  [sync.clients[d] EXCEPT
                                     !.up = IF d = c THEN Tail(@) ELSE @,
                                     !.down = IF sync.clients[d].accepted
                                              THEN Append(@, snapshotMsg(msg.snapshot))
                                              ELSE @]]]
     /\ UNCHANGED <<state, probe, hands, handBase, pureActs, handStart>>

\* the client's 'message' handler: the snapshot is adopted
clientMessage(c) ==
  LET cl == sync.clients[c]
      msg == Head(cl.down)
      normalized == msg.snapshot
  IN /\ cl.readyState = "OPEN"
     /\ cl.down # <<>>
     /\ msg.type = "snapshot"
     /\ sync' = [sync EXCEPT
                   !.clients[c].down = Tail(@),
                   !.clients[c].pendingSnapshotRef = <<>>,
                   !.clients[c].stateRef = normalized,
                   !.clients[c].state = reducer(@, [type |-> "SYNC_SET_SNAPSHOT", state |-> normalized])]
     /\ UNCHANGED <<state, probe, hands, handBase, pureActs, handStart>>

\* the effect that follows a render: stateRef.current = state
render(c) ==
  /\ sync.clients[c].stateRef # sync.clients[c].state
  /\ sync' = [sync EXCEPT !.clients[c].stateRef = sync.clients[c].state]
  /\ UNCHANGED <<state, probe, hands, handBase, pureActs, handStart>>

\* the connection is lost, at most once in a run: what was in flight on it
\* is lost with it
close(c) ==
  /\ sync.clients[c].readyState # "CLOSED"
  /\ ~sync.closedOnce
  /\ sync' = [sync EXCEPT
                !.closedOnce = TRUE,
                !.clients[c].readyState = "CLOSED",
                !.clients[c].accepted = FALSE,
                !.clients[c].up = <<>>,
                !.clients[c].down = <<>>]
  /\ UNCHANGED <<state, probe, hands, handBase, pureActs, handStart>>

InitSync ==
  /\ state = createInitialState
  /\ probe = NoProbe
  /\ sync = [latestSnapshot |-> <<>>,
             dispatched |-> 0,
             closedOnce |-> FALSE,
             clients |-> [c \in Clients |-> newClient]]
  /\ InitHistory

NextSync ==
  \/ \E c \in Clients : connect(c)
  \/ \E c \in Clients : serverConnection(c)
  \/ \E c \in Clients : clientOpen(c)
  \/ \E c \in Clients, action \in SyncActions : dispatchWithSync(c, action)
  \/ \E c \in Clients : serverMessage(c)
  \/ \E c \in Clients : clientMessage(c)
  \/ \E c \in Clients : render(c)
  \/ \E c \in Clients : close(c)

SpecSync == InitSync /\ [][NextSync]_vars

\* nothing is in flight: every queue is empty and no handshake is under way
Quiet ==
  \A c \in Clients :
    /\ sync.clients[c].up = <<>>
    /\ sync.clients[c].down = <<>>
    /\ sync.clients[c].readyState # "CONNECTING"

\* a new connection is sent the latest snapshot at once
greetsWithLatest ==
  \A c \in Clients :
    (sync.latestSnapshot # <<>> /\ serverConnection(c))
      => sync'.clients[c].down = Append(sync.clients[c].down, snapshotMsg(sync.latestSnapshot[1]))

\* C26: snapshot sync convergence.  Once nothing is in flight, every
\* connected client holds the same game state, equal to the server's
\* latestSnapshot; a client that connects later is sent that latest
\* snapshot at once.
C26_SyncConvergence ==
  /\ []((Quiet /\ sync.latestSnapshot # <<>>)
          => \A c \in Clients :
               sync.clients[c].readyState = "OPEN" => sync.clients[c].state = sync.latestSnapshot[1])
  /\ [][greetsWithLatest]_vars

\* C26 as the code has it: once a snapshot has reached the server and nothing
\* is in flight, every connected client holds the same game state, which is
\* the server's latestSnapshot as SYNC_SET_SNAPSHOT adopts it (its winner
\* lists normalised for its pots); a client that connects later is sent that
\* latest snapshot at once.
C26_SyncConvergenceNormalised ==
  /\ []((Quiet /\ sync.latestSnapshot # <<>>)
          => \A c \in Clients :
               sync.clients[c].readyState = "OPEN"
                 => sync.clients[c].state = reduceSyncSetSnapshot(sync.clients[c].state, sync.latestSnapshot[1]))
  /\ [][greetsWithLatest]_vars

\* C26 witness: both clients are connected and nothing is in flight; a
\* hand was started and its snapshot went through the server; both clients
\* hold it with the big blind's side pot assigned, which the server's copy
\* has not
C26_Witness ==
  /\ Quiet
  /\ sync.latestSnapshot # <<>>
  /\ sync.latestSnapshot[1].phase = "hand"
  /\ sync.latestSnapshot[1].potWinners = <<>>
  /\ \A c \in Clients :
       /\ sync.clients[c].readyState = "OPEN"
       /\ sync.clients[c].state.phase = "hand"
       /\ Len(sync.clients[c].state.potWinners) = 2
       /\ sync.clients[c].state = sync.clients[3 - c].state

\* ---------------------------------------------------------------------
\* The hand evaluator applied to hands dealt from small decks
\* ---------------------------------------------------------------------

\* the card parseCardsText makes of a rank key and a suit key
card(rKey, sKey) == [r |-> rankMap[rKey], s |-> sKey, text |-> <<rKey, sKey>>]

\* the deck the five-card hands are dealt from
FiveDeck ==
  <<card("A", "s"), card("A", "h"), card("A", "d"), card("K", "s"),
    card("2", "h"), card("2", "s"), card("3", "d"), card("3", "s"),
    card("4", "c"), card("4", "s"), card("5", "s"), card("6", "h")>>

\* the deck the seven-card hands are dealt from
SevenDeck ==
  <<card("A", "s"), card("A", "h"), card("K", "s"), card("K", "h"),
    card("2", "s"), card("3", "s"), card("4", "s"), card("5", "s"), card("6", "h")>>

FiveHands == {pick(FiveDeck, combo) : combo \in Range(combosFrom(Len(FiveDeck), 5, 0))}

SevenHands == {pick(SevenDeck, combo) : combo \in Range(combosFrom(Len(SevenDeck), 7, 0))}

\* the five-card hands with ranks A, 2, 3, 4, 5
Wheels == {h \in FiveHands : {h[i].r : i \in DOMAIN h} = {14, 5, 4, 3, 2}}

\* the ranks of all the seven-card hands
SevenRanks == {evaluateBestOf7(h) : h \in SevenHands}

\* how many times two cards of a hand change places before it is evaluated
MaxSwaps == 2

\* q with the cards at positions i and j exchanged
swapped(q, i, j) == [k \in DOMAIN q |-> IF k = i THEN q[j] ELSE IF k = j THEN q[i] ELSE q[k]]

newEval(source, a, b) ==
  [step |-> "cards", source |-> source, a |-> a, b |-> b, original |-> a, swaps |-> 0]

ProbeSwap(i, j) ==
  /\ probe.step = "cards"
  /\ probe.source = "seven"
  /\ probe.swaps < MaxSwaps
  /\ probe' = [probe EXCEPT !.a = swapped(@, i, j), !.swaps = @ + 1]
  /\ UNCHANGED <<state, sync, hands, handBase, pureActs, handStart>>

ProbeEvaluate5 ==
  /\ probe.step = "cards"
  /\ probe.source = "five"
  /\ probe' = [step |-> "ranked", source |-> probe.source, a |-> probe.a, b |-> probe.b,
               ra |-> evaluate5(probe.a), rb |-> evaluate5(probe.b)]
  /\ UNCHANGED <<state, sync, hands, handBase, pureActs, handStart>>

ProbeEvaluateBestOf7 ==
  /\ probe.step = "cards"
  /\ probe.source \in {"seven", "sevens"}
  /\ probe' = [step |-> "ranked", source |-> probe.source, a |-> probe.a, b |-> probe.b,
               original |-> probe.original,
               ra |-> evaluateBestOf7(probe.a), rb |-> evaluateBestOf7(probe.b)]
  /\ UNCHANGED <<state, sync, hands, handBase, pureActs, handStart>>

ProbeCompareHands ==
  /\ probe.step = "ranked"
  /\ probe' = [step |-> "compared", source |-> probe.source, a |-> probe.a, b |-> probe.b,
               ra |-> probe.ra, rb |-> probe.rb,
               ab |-> compareHands(probe.ra, probe.rb), ba |-> compareHands(probe.rb, probe.ra)]
  /\ UNCHANGED <<state, sync, hands, handBase, pureActs, handStart>>

InitEval ==
  /\ state = createInitialState
  /\ probe \in {newEval("five", a, b) : a \in Wheels, b \in FiveHands}
                 \cup {newEval("seven", a, a) : a \in SevenHands}
                 \cup {newEval("sevens", a, b) : a \in SevenHands, b \in SevenHands}
  /\ sync = NoSync
  /\ InitHistory

NextEval ==
  \/ \E i \in 1..6 : \E j \in {i + 1, 7} : ProbeSwap(i, j)
  \/ ProbeEvaluate5
  \/ ProbeEvaluateBestOf7
  \/ ProbeCompareHands

SpecEval == InitEval /\ [][NextEval]_vars

\* how many cards a hand has of each of its ranks, most first
countsOf(cards) ==
  LET rs == SortedSeq({cards[i].r : i \in DOMAIN cards})
  IN sortDesc([k \in DOMAIN rs |-> Cardinality({i \in DOMAIN cards : cards[i].r = rs[k]})])

\* the suits of a hand
suitsOf(cards) == {cards[i].s : i \in DOMAIN cards}

Sign(n) == IF n > 0 THEN 1 ELSE IF n < 0 THEN -1 ELSE 0

\* C27: wheel straight.  evaluate5 ranks a hand with ranks A, 2, 3, 4, 5
\* that is not all of one suit as a straight (category 4) with high card 5;
\* compareHands puts it strictly below a 6-high straight and strictly
\* above every hand that is a pair, two pairs or three of a kind.
C27_WheelStraight ==
  (probe.step = "compared" /\ probe.source = "five" /\ Cardinality(suitsOf(probe.a)) > 1)
    => /\ probe.ra.category = 4
       /\ probe.ra.tiebreak = <<5>>
       /\ ({probe.b[i].r : i \in DOMAIN probe.b} = {2, 3, 4, 5, 6} /\ Cardinality(suitsOf(probe.b)) > 1)
            => (probe.rb.category = 4 /\ probe.rb.tiebreak = <<6>> /\ probe.ab < 0 /\ probe.ba > 0)
       /\ countsOf(probe.b) \in {<<2, 1, 1, 1>>, <<2, 2, 1>>, <<3, 1, 1>>}
            => (probe.ab > 0 /\ probe.ba < 0)

\* C27 witness: a wheel of more than one suit was compared with three aces
\* and came out above them
C27_Witness ==
  /\ probe.step = "compared"
  /\ probe.source = "five"
  /\ Cardinality(suitsOf(probe.a)) > 1
  /\ countsOf(probe.b) = <<3, 1, 1>>
  /\ probe.rb.tiebreak[1] = 14
  /\ probe.ra.tiebreak = <<5>>
  /\ probe.ab > 0

\* C28: hand ranking is a total preorder.  Over the ranks evaluateBestOf7
\* gives to seven-card hands, compareHands is antisymmetric (the sign of
\* compare(a, b) is the opposite of the sign of compare(b, a)) and
\* transitive, and evaluateBestOf7 gives a hand the same category and
\* tiebreak however its seven cards are ordered (rb is the rank of the hand
\* in its original order, ra its rank after the cards changed places).
C28_TotalPreorder ==
  /\ (probe.step = "compared" /\ probe.source = "sevens")
       => /\ Sign(probe.ab) = -Sign(probe.ba)
          /\ \A rc \in SevenRanks :
               /\ (probe.ab >= 0 /\ compareHands(probe.rb, rc) >= 0) => compareHands(probe.ra, rc) >= 0
               /\ (probe.ab > 0 /\ compareHands(probe.rb, rc) >= 0) => compareHands(probe.ra, rc) > 0
               /\ (probe.ab <= 0 /\ compareHands(probe.rb, rc) <= 0) => compareHands(probe.ra, rc) <= 0
  /\ (probe.step = "ranked" /\ probe.source = "seven")
       => /\ Range(probe.a) = Range(probe.original)
          /\ probe.b = probe.original
          /\ probe.ra.category = probe.rb.category
          /\ probe.ra.tiebreak = probe.rb.tiebreak

\* C28 witness: two different seven-card hands of the same category were
\* compared, and the tiebreak put the first above the second
C28_Witness ==
  /\ probe.step = "compared"
  /\ probe.source = "sevens"
  /\ Range(probe.a) # Range(probe.b)
  /\ probe.ra.category = probe.rb.category
  /\ probe.ab > 0
  /\ probe.ba < 0

\* ---------------------------------------------------------------------
\* computePotWinnersFromInputs applied to showdowns of three seats.  The
\* harness deals cards, <<rKey, sKey>> each, and writes them as the texts
\* the function is given.
\* ---------------------------------------------------------------------

\* one card as a user may type it
tokenOf(c, style) ==
  CASE style = "lower" -> <<toLowerCase(c[1]), toUpperCase(c[2])>>
    [] style = "symbol" ->
         <<c[1], CASE c[2] = "s" -> "spade" [] c[2] = "h" -> "heart"
                   [] c[2] = "d" -> "diamond" [] c[2] = "c" -> "club">>
    [] OTHER -> IF c[1] = "T" THEN <<"1", "0", c[2]>> ELSE <<c[1], c[2]>>

textOf(cs, style) == [i \in DOMAIN cs |-> tokenOf(cs[i], style)]

ShowdownBoards == {<<<<"A", "h">>, <<"K", "d">>, <<"7", "c">>, <<"4", "s">>, <<"2", "h">>>>}

HoleInputs ==
  {<<<<"A", "s">>, <<"3", "c">>>>,
   <<<<"A", "d">>, <<"3", "h">>>>,
   <<<<"K", "h">>, <<"K", "c">>>>,
   <<<<"7", "d">>, <<"T", "h">>>>,
   <<<<"A", "s">>, <<"9", "d">>>>,
   <<<<"A", "h">>, <<"5", "c">>>>,
   <<<<"3", "s">>, <<"5", "d">>>>,
   <<<<"9", "c">>>>}

\* how each seat writes its cards
styleOf(seat) == <<"plain", "lower", "symbol">>[seat + 1]

\* the seats of the pots before anyone folded: a main pot and two side pots
PotSeatInputs == {<<<<0, 1, 2>>>>, <<<<0, 1, 2>>, <<1, 2>>>>, <<<<0, 1, 2>>, <<1, 2>>, <<2>>>>}

\* the pots once the folded seats are no longer eligible
potsWithout(potSeats, folded) ==
  LET left == [k \in DOMAIN potSeats |-> SelectSeq(potSeats[k], LAMBDA s : s \notin folded)]
      kept == SelectSeq(left, LAMBDA q : q # <<>>)
  IN [k \in DOMAIN kept |-> [eligibleSeats |-> kept[k]]]

newShowdown(board, holes, folded, potSeats) ==
  [step |-> "inputs",
   source |-> "showdown",
   board |-> board,
   playerHoles |-> [k \in 1..3 |-> [seat |-> k - 1, hole |-> holes[k], folded |-> (k - 1) \in folded]],
   pots |-> potsWithout(potSeats, folded),
   result |-> <<>>]

ProbeComputePotWinners ==
  /\ probe.step = "inputs"
  /\ probe.source = "showdown"
  /\ probe' = [probe EXCEPT
                 !.step = "winners",
                 !.result =
                   computePotWinnersFromInputs(
                     textOf(probe.board, "plain"),
                     [k \in DOMAIN probe.playerHoles |->
                        [seat |-> probe.playerHoles[k].seat,
                         holeText |-> textOf(probe.playerHoles[k].hole, styleOf(probe.playerHoles[k].seat)),
                         folded |-> probe.playerHoles[k].folded]],
                     probe.pots)]
  /\ UNCHANGED <<state, sync, hands, handBase, pureActs, handStart>>

InitWinners ==
  /\ state = createInitialState
  /\ probe \in {newShowdown(board, holes, folded, potSeats) :
                  board \in ShowdownBoards, holes \in HoleInputs \X HoleInputs \X HoleInputs,
                  folded \in SUBSET {0, 1}, potSeats \in PotSeatInputs}
  /\ sync = NoSync
  /\ InitHistory

NextWinners == ProbeComputePotWinners

SpecWinners == InitWinners /\ [][NextWinners]_vars

\* the cards of the board and of the holes of the players that did not fold
RECURSIVE dealtFrom(_, _)
dealtFrom(playerHoles, i) ==
  IF i > Len(playerHoles) THEN <<>>
  ELSE (IF playerHoles[i].folded THEN <<>> ELSE playerHoles[i].hole) \o dealtFrom(playerHoles, i + 1)

dealt == probe.board \o dealtFrom(probe.playerHoles, 1)

\* the best rank of the seven cards of a seat
rankOfSeat(seat) ==
  LET cs == probe.board \o probe.playerHoles[seat + 1].hole
  IN evaluateBestOf7([i \in DOMAIN cs |-> card(cs[i][1], cs[i][2])])

\* C29: computePotWinnersFromInputs returns an error and no winners whenever
\* the same card appears twice among the board and the hole cards of the
\* players that did not fold, two players holding the same card included.
C29_DuplicateCardRejected ==
  (probe.step = "winners" /\ probe.source = "showdown"
     /\ \E j, k \in DOMAIN dealt : j < k /\ dealt[j] = dealt[k])
    => (probe.result.error # <<>> /\ probe.result.potWinners = <<>>)

\* C30: computePotWinnersFromInputs decides each pot on its own.  When it
\* returns without an error, a pot with one eligible seat goes to that seat,
\* and the winners of a pot with more eligible seats are exactly the
\* eligible seats whose best seven-card rank is not below the rank of any
\* eligible seat of that pot, in ascending order.
C30_PotWinnersPerPot ==
  (probe.step = "winners" /\ probe.source = "showdown" /\ probe.result.error = <<>>)
    => /\ Len(probe.result.potWinners) = Len(probe.pots)
       /\ \A k \in DOMAIN probe.pots :
            LET eligible == probe.pots[k].eligibleSeats
                winners == probe.result.potWinners[k]
                rank == [s \in Range(eligible) |-> rankOfSeat(s)]
            IN IF Len(eligible) = 1 THEN winners = <<eligible[1]>>
               ELSE winners = SortedSeq({s \in Range(eligible) :
                                           \A t \in Range(eligible) : compareHands(rank[s], rank[t]) >= 0})

\* C30 witness: seat 0, all-in for less, holds the wheel and wins the main
\* pot; the side pot of seats 1 and 2 goes to seat 1's three kings, which
\* the wheel beats; the last pot goes to its only seat, seat 2
C30_Witness ==
  /\ probe.step = "winners"
  /\ probe.source = "showdown"
  /\ probe.result.error = <<>>
  /\ probe.pots = <<[eligibleSeats |-> <<0, 1, 2>>], [eligibleSeats |-> <<1, 2>>], [eligibleSeats |-> <<2>>]>>
  /\ probe.result.potWinners = <<<<0>>, <<1>>, <<2>>>>
  /\ probe.result.ranks[0].category = 4
  /\ probe.result.ranks[1].category = 3
  /\ probe.result.ranks[2].category = 1

(***************************************************************************)
(* SpecShort: hands at tables so short of chips that the forced bets put   *)
(* players all-in, with and without an ante.  Hands are started, played by *)
(* the seat in turn, undone, moved on with NEXT_STREET, settled and        *)
(* cancelled, and chips are bought for broke seats at any time.            *)
(***************************************************************************)
ShortStacks == {<<1, 2>>, <<2, 1, 1>>, <<0, 3, 2>>}

ShortStates ==
  {reduceSetConfig(reduceSetPlayers(createInitialState, playersOf(stacks)), cfg) :
     stacks \in ShortStacks, cfg \in ConfigInputs}

InitShort ==
  /\ state \in ShortStates
  /\ probe = NoProbe
  /\ sync = NoSync
  /\ InitHistory

NextShort ==
  \/ (state.phase = "setup" /\ hands < MaxHands) /\ StartHand
  \/ \E seat \in {state.actionSeat}, action \in PhasesActions :
       /\ state.phase = "hand"
       /\ playerActError(normalizeAfterError(state), seat, action) = Null
       /\ IF skipsRollbackPoint(state, seat) THEN TRUE ELSE Len(state.rollbackStack) < MaxUndo
       /\ PlayerAct(seat, action)
  \/ Rollback
  \/ (state.phase = "hand" /\ state.rollbackStack = <<>>) /\ NextStreet
  \/ \E seat \in DOMAIN state.players :
       (state.phase # "setup" /\ state.players[seat].stack = 0 /\ state.players[seat].totalCommitted = 0)
         /\ Rebuy(seat, 2)
  \/ state.phase = "showdown" /\ SettleHand
  \/ state.phase # "setup" /\ CancelHand
  \/ Unrecognised

SpecShort == InitShort /\ [][NextShort]_vars

\* C31: no stuck hand.  In every state with phase = hand the player at
\* actionSeat has status active and a stack above 0 (so that a FOLD by that
\* seat is accepted): the engine never rests in phase = hand with no seat
\* that needs action.
C31_NoStuckHand ==
  state.phase = "hand"
    => /\ state.actionSeat \in DOMAIN state.players
       /\ state.players[state.actionSeat].status = "active"
       /\ state.players[state.actionSeat].stack > 0

\* C32: a rollback point is pushed only for a player action that is applied.
\* A PLAYER_ACT that is rejected (lastError set) leaves rollbackStack as it
\* was, so that one ROLLBACK after it still undoes the last accepted action.
C32_RollbackPointOnlyWhenApplied ==
  [][\A seat \in SeatInputs, action \in ActionInputs :
       (PlayerAct(seat, action) /\ state'.lastError # Null)
         => state'.rollbackStack = state.rollbackStack]_vars

\* C33: the reducer is pure.  A PLAYER_ACT leaves the input state value as it
\* was, the acted flags of its player records included, and the same action
\* applied a second time to the same input state yields an equal output.
C33_ReducerPure ==
  [][\A seat \in SeatInputs, action \in ActionInputs :
       PlayerAct(seat, action)
         => /\ inputAfterPlayerAct(state, seat, action) = state
            /\ reducePlayerAct(inputAfterPlayerAct(state, seat, action), seat, action) = state']_vars

\* a SETTLE_HAND that settles: the table has two players or more and every
\* contested pot has a winner
settles ==
  /\ NumPlayers(state.players) >= 2
  /\ SettleHand
  /\ state'.lastError = Null

\* the first seat clockwise after `fromSeat` whose player is not out, the
\* seat itself coming last
isNextNotOut(ps, fromSeat, seat) ==
  LET n == NumPlayers(ps)
  IN \E k \in 1..n :
       /\ seat = (fromSeat + k) % n
       /\ ps[seat].status # "out"
       /\ \A j \in 1..(k - 1) : ps[(fromSeat + j) % n].status = "out"

\* C34: a successful SETTLE_HAND sets streetBet and totalCommitted of every
\* player to 0 and acted to false, makes out exactly the players whose
\* resulting stack is 0 and active all others, moves dealerSeat to the next
\* seat clockwise whose player is not out, clears board, potWinners and
\* rollbackStack, and sets phase = setup and street = preflop.
C34_SettleResets ==
  [][settles
       => LET ps == state'.players
          IN /\ \A i \in DOMAIN ps :
                  /\ ps[i].streetBet = 0
                  /\ ps[i].totalCommitted = 0
                  /\ ps[i].acted = FALSE
                  /\ ps[i].status = (IF ps[i].stack = 0 THEN "out" ELSE "active")
             /\ (\E i \in DOMAIN ps : ps[i].status # "out")
                  => isNextNotOut(ps, state.dealerSeat, state'.dealerSeat)
             /\ state'.boardCardsText = ""
             /\ state'.potWinners = <<>>
             /\ state'.rollbackStack = <<>>
             /\ state'.phase = "setup"
             /\ state'.street = "preflop"]_vars

\* C34 witness: a hand of the 1-2-3 table was settled after play; seat 1, the
\* neighbour of the dealer, went broke and is out, and the dealer button
\* passed over it from seat 0 to seat 2
C34_Witness ==
  /\ state.phase = "setup"
  /\ hands = 1
  /\ state.players[1].status = "out"
  /\ state.players[2].status = "active"
  /\ state.dealerSeat = 2
  /\ state.rollbackStack = <<>>

\* C35: an action whose type tag the reducer does not recognise returns the
\* input state unchanged except that lastError is set to a non-null reason.
C35_UnrecognisedActionReported ==
  [][Unrecognised
       => /\ state'.lastError # Null
          /\ state' = [state EXCEPT !.lastError = state'.lastError]]_vars

(***************************************************************************)
(* SpecPassive: one hand played passively.  The table has chips enough for *)
(* the forced bets; after START_HAND the seat in turn checks when it has   *)
(* nothing to call and calls otherwise.  The players keep acting as long   *)
(* as it is somebody's turn, hence the weak fairness of the passive move.  *)
(***************************************************************************)
PassiveStacks == {<<5, 5>>, <<4, 9>>, <<6, 5, 7>>, <<9, 4, 4>>}

PassiveStates ==
  {reduceSetConfig(reduceSetPlayers(createInitialState, playersOf(stacks)), cfg) :
     stacks \in PassiveStacks, cfg \in ConfigInputs}

\* CHECK with nothing to call, CALL otherwise
passiveAction(seat) ==
  IF toCallFor(state.players[seat], state) = 0 THEN Act("CHECK") ELSE Act("CALL")

\* the passive PLAYER_ACT of the seat in turn; the run of player actions is
\* not counted
Passive(seat) ==
  /\ inTurn(seat)
  /\ state' = reducePlayerAct(state, seat, passiveAction(seat))
  /\ KeepBase
  /\ UNCHANGED <<probe, sync, hands>>

InitPassive ==
  /\ state \in PassiveStates
  /\ probe = NoProbe
  /\ sync = NoSync
  /\ InitHistory

NextPassive ==
  \/ state.phase = "setup" /\ StartHand
  \/ \E seat \in SeatInputs : Passive(seat)

SpecPassive ==
  /\ InitPassive
  /\ [][NextPassive]_vars
  /\ WF_vars(\E seat \in SeatInputs : Passive(seat))

\* C36: every betting round can be closed passively.  When each successive
\* action seat checks with nothing to call and calls otherwise, the action
\* never returns on the same street to the player who has just checked, and
\* the hand that was started reaches showdown.
C36_PassiveClosure ==
  /\ [][\A seat \in SeatInputs :
          (/\ Passive(seat)
           /\ passiveAction(seat).type = "CHECK"
           /\ state'.phase = "hand"
           /\ state'.street = state.street)
            => state'.actionSeat # seat]_vars
  /\ (state.phase = "hand") ~> (state.phase = "showdown")

\* C37: while phase = hand, currentBet is an upper bound of every player's
\* streetBet.
C37_StreetBetWithinCurrentBet ==
  state.phase = "hand"
    => \A i \in DOMAIN state.players : state.players[i].streetBet <= state.currentBet

\* C38: whenever phase = setup, streetBet and totalCommitted of every player
\* are 0 and rollbackStack is empty; SESSION_START and SESSION_END in the
\* middle of a hand leave no committed chips outside the stacks.
C38_SetupHoldsNoCommittedChips ==
  state.phase = "setup"
    => /\ \A i \in DOMAIN state.players :
            /\ state.players[i].streetBet = 0
            /\ state.players[i].totalCommitted = 0
       /\ state.rollbackStack = <<>>

\* the seats that were out when the running hand started: rollbackStack is
\* emptied by START_HAND, its first point is taken before a PLAYER_ACT of
\* this hand, and no action of a hand turns another status into out
outAtHandStart ==
  IF state.rollbackStack = <<>> THEN {}
  ELSE {i \in DOMAIN state.players : state.rollbackStack[1].players[i].status = "out"}

\* C39: a player who is out when a hand starts takes no part in that hand.
\* Until the hand returns to setup the player never becomes the action seat,
\* never has totalCommitted > 0 and is never eligible for a pot, even if
\* REBUY is applied to that seat during the hand.
C39_OutPlayersStayOut ==
  state.phase \in {"hand", "showdown"}
    => \A i \in outAtHandStart :
         /\ state.phase = "hand" => state.actionSeat # i
         /\ state.players[i].totalCommitted = 0
         /\ LET pots == computeSidePots(state.players)
            IN \A k \in DOMAIN pots : state.players[i].seat \notin Range(pots[k].eligibleSeats)

(***************************************************************************)
(* SpecAccount: the chips of a running session.  A session is started at   *)
(* the seated table; hands are started, played by the seat in turn, undone,*)
(* moved on with NEXT_STREET, awarded, settled at showdown and cancelled,  *)
(* and a seat without chips buys two more at any time, MaxRebuy chips at   *)
(* most in a session.  The player list is not edited.                      *)
(***************************************************************************)
MaxRebuy == 2

AccountStacks == {<<2, 3>>, <<3, 2, 2>>}

AccountStates ==
  {reduceSessionStart(reduceSetPlayers(createInitialState, playersOf(stacks)), "s1", 1) :
     stacks \in AccountStacks}

InitAccount ==
  /\ state \in AccountStates
  /\ probe = NoProbe
  /\ sync = NoSync
  /\ InitHistory

NextAccount ==
  \/ (state.phase = "setup" /\ hands < MaxHands) /\ StartHand
  \/ \E seat \in {state.actionSeat}, action \in PhasesActions :
       /\ state.phase = "hand"
       /\ playerActError(normalizeAfterError(state), seat, action) = Null
       /\ IF skipsRollbackPoint(state, seat) THEN TRUE ELSE Len(state.rollbackStack) < MaxUndo
       /\ PlayerAct(seat, action)
  \/ Rollback
  \/ (state.phase = "hand" /\ state.rollbackStack = <<>>) /\ NextStreet
  \/ \E seat \in DOMAIN state.players :
       (state.players[seat].stack = 0 /\ SumSeq(state.session[1].rebuys) < MaxRebuy)
         /\ Rebuy(seat, 2)
  \/ state.phase = "showdown" /\ \E potIndex \in PotIndexInputs, seats \in WinnerInputs : SetPotWinners(potIndex, seats)
  \/ state.phase = "showdown" /\ SettleHand
  \/ state.phase # "setup" /\ CancelHand

SpecAccount == InitAccount /\ [][NextAccount]_vars

\* C40: session accounting is zero-sum.  While a session is active, in
\* every state with phase = setup the sum of all stacks equals the sum of
\* session.initialStacks plus the sum of session.rebuys.
C40_SessionZeroSum ==
  (state.phase = "setup" /\ hasActiveSession(state.session))
    => SumStacks(state.players)
         = SumSeq(state.session[1].initialStacks) + SumSeq(state.session[1].rebuys)

====
